---- MODULE Spec2Model ----
(***************************************************************************)
(* Model of the graphable core: Graphable nodes (graphable.py) and the     *)
(* Graph container with its caches, observers and algorithms (graph.py).   *)
(***************************************************************************)
EXTENDS Integers, Sequences, FiniteSets, TLC

(***************************************************************************)
(* Universe.  Node objects are identified by name; every original node has *)
(* one slot for a second object with the same reference: a shallow copy    *)
(* made by copy.copy (clone and transitive_reduction) or a node that was   *)
(* constructed separately with that reference.  A has a twin: one more     *)
(* node constructed with the reference A, with a slot for its copy.        *)
(***************************************************************************)
Orig == {"a", "b", "c", "d"}

Copies == {"a2", "b2", "c2", "d2"}

Twins == {"a3", "a4"}

\* Names for the copies copy.copy makes in transitive_closure and
\* diff_graph, which keep the _tags set of their original.
Shallow == {"a5", "b5", "c5", "d5"}

Node == Orig \cup Copies \cup Twins \cup Shallow

ShallowOf(n) ==
  CASE n = "a" -> "a5" [] n = "b" -> "b5" [] n = "c" -> "c5" [] n = "d" -> "d5"
    [] OTHER -> n

\* Which set object a node's _tags field points to.
TagStore(n) ==
  CASE n = "a5" -> "a" [] n = "b5" -> "b" [] n = "c5" -> "c" [] n = "d5" -> "d"
    [] OTHER -> n

CopyOf(n) ==
  CASE n = "a" -> "a2" [] n = "b" -> "b2" [] n = "c" -> "c2" [] n = "d" -> "d2"
    [] n = "a3" -> "a4" [] OTHER -> n

\* Graphable.reference: immutable, shared by a node and its copy.
reference(n) ==
  CASE n \in {"a", "a2", "a3", "a4", "a5"} -> "A" [] n \in {"b", "b2", "b5"} -> "B"
    [] n \in {"c", "c2", "c5"} -> "C" [] OTHER -> "D"

Graph == {"g1", "g2"}

Tag == {"x", "x:edge:B"}

Key == {"w"}

Val == {1, 2}

\* An attribute bag (a dict) is a set of <<key, value>> pairs, one per key.
Bag == {{}} \cup {{<<k, v>>} : k \in Key, v \in Val}

\* Attribute bags the modelled callers pass to add_edge / add_dependency.
AttrChoices == {{}, {<<"w", 1>>}}

Dur == {0, 1}

Status == {"pending", "done"}

\* Length of the sequences of mutating calls explored.
MaxOps == 3

EmptyMap == [x \in {} |-> {}]

NoCache == [set |-> FALSE, val |-> <<>>]

Cached(v) == [set |-> TRUE, val |-> v]

\* Record of a call: operation, receiver graph, node arguments, the error
\* raised ("none" when it returned), the cycle an error carries and the
\* value returned.
NoCall == [op |-> "none", g |-> "g1", u |-> "a", v |-> "a", err |-> "none",
           cycle |-> <<>>, ret |-> "None"]

Call(op, g, u, v, err, cycle, ret) ==
  [op |-> op, g |-> g, u |-> u, v |-> v, err |-> err, cycle |-> cycle,
   ret |-> ret]

VARIABLES
  alive,        \* node objects that have been constructed
  dependents,   \* Graphable._dependents : node -> (node -> bag)
  depends_on,   \* Graphable._depends_on : node -> (node -> bag)
  tags,         \* Graphable._tags
  duration,     \* Graphable._duration
  status,       \* Graphable._status
  obsId,        \* which WeakSet object a node's _observers field points to
  observers,    \* contents of each WeakSet object
  nodes,        \* Graph._nodes
  topoCache,    \* Graph._topological_order
  parCache,     \* Graph._parallel_topological_order
  sumCache,     \* Graph._checksum
  last,         \* the last call and its outcome
  ops,          \* number of calls made so far
  budget        \* number of calls the explored sequences may make

vars == <<alive, dependents, depends_on, tags, duration, status, obsId,
          observers, nodes, topoCache, parCache, sumCache, last, ops, budget>>

nodeVars == <<alive, dependents, depends_on, tags, duration, status>>

edgeVars == <<dependents, depends_on>>

cacheVars == <<topoCache, parCache, sumCache>>

(***************************************************************************)
(* Helpers on dicts and sequences.                                         *)
(***************************************************************************)
Put(m, k, v) == [x \in (DOMAIN m) \cup {k} |-> IF x = k THEN v ELSE m[x]]

Del(m, k) == [x \in (DOMAIN m) \ {k} |-> m[x]]

Last(s) == s[Len(s)]

Range(s) == {s[i] : i \in 1..Len(s)}

\* Every enumeration of a finite set: the orders a Python set may iterate in.
Orders(S) ==
  {s \in [1..Cardinality(S) -> S] : \A x \in S : \E i \in DOMAIN s : s[i] = x}

\* Graphable.dependents / Graphable.depends_on properties (key sets).
Dependents(n) == DOMAIN dependents[n]

DependsOn(n) == DOMAIN depends_on[n]

\* Graphable._notify_change: the graphs whose _invalidate_cache is called,
\* given the WeakSet contents obs.
Notified(obs, S) == UNION {obs[obsId[n]] : n \in S}

\* Graph._invalidate_cache applied to every graph of S.
Inval(c, S) == [g \in Graph |-> IF g \in S THEN NoCache ELSE c[g]]

(***************************************************************************)
(* Graphable.find_path: breadth-first search over dependents.  The queue   *)
(* is explored level by level; the result is None (the empty set here) or  *)
(* one of the shortest paths, which one depending on set iteration order.  *)
(***************************************************************************)
RECURSIVE BfsPaths(_, _, _)
BfsPaths(frontier, visited, target) ==
  IF frontier = {} THEN {}
  ELSE LET hits == {p \in frontier : Last(p) = target}
       IN IF hits # {} THEN hits
          ELSE LET seen == visited \cup {Last(p) : p \in frontier}
               IN BfsPaths(UNION {{Append(p, n) : n \in Dependents(Last(p)) \ seen}
                                    : p \in frontier},
                           seen, target)

\* A search that looks no further than the direct dependents of s.
FindPathsDirect(s, t) ==
  {p \in {<<s, n>> : n \in Dependents(s)} : Last(p) = t}

\* A search that takes a shortest path to any node t depends on and steps to
\* t from there.
FindPathsViaDetour(s, t) ==
  LET start == {<<s, n>> : n \in Dependents(s)}
  IN {p \in start : Last(p) = t} \cup
     UNION {{Append(p, t) : p \in BfsPaths(start, {}, m)}
              : m \in {x \in Node : t \in Dependents(x)}}

FindPaths(s, t) ==
  BfsPaths({<<s, n>> : n \in Dependents(s)}, {}, t)

(***************************************************************************)
(* Initial state: the nodes of N0 constructed and edgeless                 *)
(* (Graphable.__init__), every graph constructed empty (Graph.__init__).   *)
(***************************************************************************)
InitNodes(N0) ==
  /\ alive = N0
  /\ dependents = [n \in Node |-> EmptyMap]
  /\ depends_on = [n \in Node |-> EmptyMap]
  /\ tags = [n \in Node |-> {}]
  /\ duration = [n \in Node |-> 0]
  /\ status = [n \in Node |-> "pending"]
  /\ obsId = [n \in Node |-> n]
  /\ observers = [n \in Node |-> {}]

InitGraphs ==
  /\ nodes = [g \in Graph |-> {}]
  /\ topoCache = [g \in Graph |-> NoCache]
  /\ parCache = [g \in Graph |-> NoCache]
  /\ sumCache = [g \in Graph |-> NoCache]
  /\ last = NoCall
  /\ ops = 0

Init == InitNodes({"a", "b"}) /\ InitGraphs /\ budget = MaxOps

(***************************************************************************)
(* Graph: mutation.                                                        *)
(***************************************************************************)
\* Graph._check_node_consistency
NodeConsistent(n) ==
  /\ \A d \in DependsOn(n) : n \in Dependents(d)
  /\ \A s \in Dependents(n) : n \in DependsOn(s)

\* An add_node that admits every node that is not yet a member.
AddNodeOutcomeUnchecked(g, n) ==
  IF n \in nodes[g] THEN "present" ELSE "added"

\* Graph.add_node: what the call does with node n on graph g.
AddNodeOutcome(g, n) ==
  IF n \in nodes[g] THEN "present"
  ELSE IF FindPaths(n, n) # {} THEN "cycle"
  ELSE IF ~NodeConsistent(n) THEN "consistency"
  ELSE "added"

\* Graphable._add_dependent / _add_depends_on write (and notify) only when
\* the entry is new or its attributes differ.
Changed(m, k, attrs) == k \notin DOMAIN m \/ m[k] # attrs

Step == ops < budget /\ ops' = ops + 1 /\ budget' = budget

AddNode(g, n) ==
  /\ Step
  /\ n \in alive
  /\ LET o == AddNodeOutcome(g, n)
     IN /\ IF o = "added"
           THEN /\ nodes' = [nodes EXCEPT ![g] = @ \cup {n}]
                /\ observers' = [observers EXCEPT ![obsId[n]] = @ \cup {g}]
                /\ topoCache' = Inval(topoCache, {g})
                /\ parCache' = Inval(parCache, {g})
                /\ sumCache' = Inval(sumCache, {g})
           ELSE UNCHANGED <<nodes, observers, topoCache, parCache, sumCache>>
        /\ IF o = "cycle"
           THEN \E p \in FindPaths(n, n) :
                  last' = Call("add_node", g, n, n, "cycle", p, "None")
           ELSE last' = Call("add_node", g, n, n,
                             IF o = "consistency" THEN o ELSE "none", <<>>,
                             IF o = "added" THEN "True"
                             ELSE IF o = "present" THEN "False" ELSE "None")
  /\ UNCHANGED <<nodeVars, obsId>>

AddEdge(g, u, v, attrs) ==
  /\ Step
  /\ u \in alive /\ v \in alive
  /\ LET o1 == AddNodeOutcome(g, u)
         o2 == AddNodeOutcome(g, v)
         added == {n \in {u, v} : AddNodeOutcome(g, n) = "added"}
         obs1 == [i \in Node |->
                    observers[i] \cup
                      (IF \E n \in added : obsId[n] = i THEN {g} ELSE {})]
         chg1 == Changed(dependents[u], v, attrs)
         chg2 == Changed(depends_on[v], u, attrs)
         told == Notified(obs1, (IF chg1 THEN {u} ELSE {}) \cup
                                 (IF chg2 THEN {v} ELSE {})) \cup {g}
     IN IF u = v
        THEN /\ last' = Call("add_edge", g, u, v, "cycle", <<u, u>>, "None")
             /\ UNCHANGED <<nodeVars, obsId, observers, nodes, cacheVars>>
        ELSE IF FindPaths(v, u) # {}
        THEN /\ \E p \in FindPaths(v, u) :
                  last' = Call("add_edge", g, u, v, "cycle", Append(p, v),
                               "None")
             /\ UNCHANGED <<nodeVars, obsId, observers, nodes, cacheVars>>
        ELSE IF o1 \in {"cycle", "consistency"}
        THEN /\ \E p \in (IF o1 = "cycle" THEN FindPaths(u, u) ELSE {<<>>}) :
                  last' = Call("add_edge", g, u, v, o1, p, "None")
             /\ UNCHANGED <<nodeVars, obsId, observers, nodes, cacheVars>>
        ELSE IF o2 \in {"cycle", "consistency"}
        THEN \* add_node(node) has already taken effect when add_node(dependent) raises
             /\ \E p \in (IF o2 = "cycle" THEN FindPaths(v, v) ELSE {<<>>}) :
                  last' = Call("add_edge", g, u, v, o2, p, "None")
             /\ IF o1 = "added"
                THEN /\ nodes' = [nodes EXCEPT ![g] = @ \cup {u}]
                     /\ observers' = [observers EXCEPT ![obsId[u]] = @ \cup {g}]
                     /\ topoCache' = Inval(topoCache, {g})
                     /\ parCache' = Inval(parCache, {g})
                     /\ sumCache' = Inval(sumCache, {g})
                ELSE UNCHANGED <<observers, nodes, cacheVars>>
             /\ UNCHANGED <<nodeVars, obsId>>
        ELSE /\ nodes' = [nodes EXCEPT ![g] = @ \cup {u, v}]
             /\ observers' = obs1
             /\ dependents' = [dependents EXCEPT ![u] = Put(@, v, attrs)]
             /\ depends_on' = [depends_on EXCEPT ![v] = Put(@, u, attrs)]
             /\ topoCache' = Inval(topoCache, told)
             /\ parCache' = Inval(parCache, told)
             /\ sumCache' = Inval(sumCache, told)
             /\ last' = Call("add_edge", g, u, v, "none", <<>>, "None")
             /\ UNCHANGED <<alive, tags, duration, status, obsId>>

RemoveEdge(g, u, v) ==
  /\ Step
  /\ u \in alive /\ v \in alive
  /\ last' = Call("remove_edge", g, u, v, "none", <<>>, "None")
  /\ IF u \in nodes[g] /\ v \in nodes[g]
     THEN LET told == Notified(observers,
                        (IF v \in Dependents(u) THEN {u} ELSE {}) \cup
                        (IF u \in DependsOn(v) THEN {v} ELSE {})) \cup {g}
          IN /\ dependents' = [dependents EXCEPT ![u] = Del(@, v)]
             /\ depends_on' = [depends_on EXCEPT ![v] = Del(@, u)]
             /\ topoCache' = Inval(topoCache, told)
             /\ parCache' = Inval(parCache, told)
             /\ sumCache' = Inval(sumCache, told)
     ELSE UNCHANGED <<edgeVars, cacheVars>>
  /\ UNCHANGED <<alive, tags, duration, status, obsId, observers, nodes>>

\* Graph.remove_node: the neighbours forget n; n keeps its own two dicts.
RemoveNode(g, n) ==
  /\ Step
  /\ n \in alive
  /\ last' = Call("remove_node", g, n, n, "none", <<>>, "None")
  /\ IF n \in nodes[g]
     THEN LET deps == DependsOn(n)
              dependents1 == [d \in Node |->
                                IF d \in deps THEN Del(dependents[d], n)
                                ELSE dependents[d]]
              subs == DOMAIN dependents1[n]
              told == Notified(observers,
                        {d \in deps : n \in Dependents(d)} \cup
                        {s \in subs : n \in DependsOn(s)}) \cup {g}
          IN /\ dependents' = dependents1
             /\ depends_on' = [s \in Node |->
                                 IF s \in subs THEN Del(depends_on[s], n)
                                 ELSE depends_on[s]]
             /\ nodes' = [nodes EXCEPT ![g] = @ \ {n}]
             /\ observers' = [observers EXCEPT ![obsId[n]] = @ \ {g}]
             /\ topoCache' = Inval(topoCache, told)
             /\ parCache' = Inval(parCache, told)
             /\ sumCache' = Inval(sumCache, told)
     ELSE UNCHANGED <<edgeVars, nodes, observers, cacheVars>>
  /\ UNCHANGED <<alive, tags, duration, status, obsId>>

GraphMutation ==
  \/ \E g \in Graph, n \in alive : AddNode(g, n)
  \/ \E g \in Graph, u, v \in alive, at \in AttrChoices : AddEdge(g, u, v, at)
  \/ \E g \in Graph, u, v \in alive : RemoveEdge(g, u, v)
  \/ \E g \in Graph, n \in alive : RemoveNode(g, n)

(***************************************************************************)
(* Graphable: mutation.                                                    *)
(***************************************************************************)
\* The entries written by self._add_depends_on(dependency) followed by
\* dependency._add_dependent(self), and the graphs notified.
LinkAction(src, dst, attrs) ==
  LET chg1 == Changed(dependents[src], dst, attrs)
      chg2 == Changed(depends_on[dst], src, attrs)
      told == Notified(observers, (IF chg1 THEN {src} ELSE {}) \cup
                                  (IF chg2 THEN {dst} ELSE {}))
  IN /\ dependents' = [dependents EXCEPT ![src] = Put(@, dst, attrs)]
     /\ depends_on' = [depends_on EXCEPT ![dst] = Put(@, src, attrs)]
     /\ topoCache' = Inval(topoCache, told)
     /\ parCache' = Inval(parCache, told)
     /\ sumCache' = Inval(sumCache, told)

\* self.add_dependency(dependency, check_cycles, **attrs): edge dependency -> self
AddDependency(self, dependency, check, attrs) ==
  /\ Step
  /\ self \in alive /\ dependency \in alive
  /\ IF check /\ FindPaths(self, dependency) # {}
     THEN /\ \E p \in FindPaths(self, dependency) :
               last' = Call("add_dependency", "g1", self, dependency, "cycle",
                            Append(p, self), "None")
          /\ UNCHANGED <<edgeVars, cacheVars>>
     ELSE /\ last' = Call("add_dependency", "g1", self, dependency, "none",
                          <<>>, "None")
          /\ LinkAction(dependency, self, attrs)
  /\ UNCHANGED <<alive, tags, duration, status, obsId, observers, nodes>>

\* self.add_dependent(dependent, check_cycles, **attrs): edge self -> dependent
AddDependent(self, dependent, check, attrs) ==
  /\ Step
  /\ self \in alive /\ dependent \in alive
  /\ IF check /\ FindPaths(dependent, self) # {}
     THEN /\ \E p \in FindPaths(dependent, self) :
               last' = Call("add_dependent", "g1", self, dependent, "cycle",
                            Append(p, dependent), "None")
          /\ UNCHANGED <<edgeVars, cacheVars>>
     ELSE /\ last' = Call("add_dependent", "g1", self, dependent, "none",
                          <<>>, "None")
          /\ LinkAction(self, dependent, attrs)
  /\ UNCHANGED <<alive, tags, duration, status, obsId, observers, nodes>>

NotifyOnly(n) ==
  LET told == Notified(observers, {n})
  IN /\ topoCache' = Inval(topoCache, told)
     /\ parCache' = Inval(parCache, told)
     /\ sumCache' = Inval(sumCache, told)

AddTag(n, t) ==
  /\ Step
  /\ n \in alive
  /\ tags' = [i \in Node |->
                IF i \in alive /\ TagStore(i) = TagStore(n)
                THEN tags[n] \cup {t} ELSE tags[i]]
  /\ NotifyOnly(n)
  /\ last' = Call("add_tag", "g1", n, n, "none", <<>>, "None")
  /\ UNCHANGED <<alive, edgeVars, duration, status, obsId, observers, nodes>>

RemoveTag(n, t) ==
  /\ Step
  /\ n \in alive
  /\ tags' = [i \in Node |->
                IF i \in alive /\ TagStore(i) = TagStore(n)
                THEN tags[n] \ {t} ELSE tags[i]]
  /\ IF t \in tags[n] THEN NotifyOnly(n) ELSE UNCHANGED cacheVars
  /\ last' = Call("remove_tag", "g1", n, n, "none", <<>>, "None")
  /\ UNCHANGED <<alive, edgeVars, duration, status, obsId, observers, nodes>>

SetDuration(n, d) ==
  /\ Step
  /\ n \in alive
  /\ duration' = [duration EXCEPT ![n] = d]
  /\ NotifyOnly(n)
  /\ last' = Call("duration", "g1", n, n, "none", <<>>, "None")
  /\ UNCHANGED <<alive, edgeVars, tags, status, obsId, observers, nodes>>

SetStatus(n, st) ==
  /\ Step
  /\ n \in alive
  /\ status' = [status EXCEPT ![n] = st]
  /\ NotifyOnly(n)
  /\ last' = Call("status", "g1", n, n, "none", <<>>, "None")
  /\ UNCHANGED <<alive, edgeVars, tags, duration, obsId, observers, nodes>>

\* dict[key] = value on an attribute bag
SetKey(bag, k, v) == {p \in bag : p[1] # k} \cup {<<k, v>>}

\* A set_edge_attribute that writes only the caller's own entry.
SetEdgeAttributeOneSided(self, other, k, v) ==
  /\ Step
  /\ self \in alive /\ other \in alive
  /\ IF other \in Dependents(self)
     THEN /\ dependents' = [dependents EXCEPT ![self][other] = SetKey(@, k, v)]
          /\ UNCHANGED depends_on
          /\ NotifyOnly(self)
          /\ last' = Call("set_edge_attribute", "g1", self, other, "none",
                          <<>>, "None")
     ELSE IF other \in DependsOn(self)
     THEN /\ depends_on' = [depends_on EXCEPT ![self][other] = SetKey(@, k, v)]
          /\ UNCHANGED dependents
          /\ NotifyOnly(self)
          /\ last' = Call("set_edge_attribute", "g1", self, other, "none",
                          <<>>, "None")
     ELSE /\ UNCHANGED <<edgeVars, cacheVars>>
          /\ last' = Call("set_edge_attribute", "g1", self, other, "KeyError",
                          <<>>, "None")
  /\ UNCHANGED <<alive, tags, duration, status, obsId, observers, nodes>>

\* Graphable.set_edge_attribute: self's entry is written first; the write
\* through other's dict raises KeyError when that entry is missing.
SetEdgeAttribute(self, other, k, v) ==
  /\ Step
  /\ self \in alive /\ other \in alive
  /\ IF other \in Dependents(self)
     THEN /\ dependents' =
               [dependents EXCEPT ![self][other] = SetKey(@, k, v)]
          /\ IF self \in DependsOn(other)
             THEN /\ depends_on' =
                       [depends_on EXCEPT ![other][self] = SetKey(@, k, v)]
                  /\ NotifyOnly(self)
                  /\ last' = Call("set_edge_attribute", "g1", self, other,
                                  "none", <<>>, "None")
             ELSE /\ UNCHANGED <<depends_on, cacheVars>>
                  /\ last' = Call("set_edge_attribute", "g1", self, other,
                                  "KeyError", <<>>, "None")
     ELSE IF other \in DependsOn(self)
     THEN /\ depends_on' =
               [depends_on EXCEPT ![self][other] = SetKey(@, k, v)]
          /\ IF self \in Dependents(other)
             THEN /\ dependents' =
                       [dependents EXCEPT ![other][self] = SetKey(@, k, v)]
                  /\ NotifyOnly(self)
                  /\ last' = Call("set_edge_attribute", "g1", self, other,
                                  "none", <<>>, "None")
             ELSE /\ UNCHANGED <<dependents, cacheVars>>
                  /\ last' = Call("set_edge_attribute", "g1", self, other,
                                  "KeyError", <<>>, "None")
     ELSE /\ UNCHANGED <<edgeVars, cacheVars>>
          /\ last' = Call("set_edge_attribute", "g1", self, other, "KeyError",
                          <<>>, "None")
  /\ UNCHANGED <<alive, tags, duration, status, obsId, observers, nodes>>

NodeMutation ==
  \/ \E n, m \in alive, c \in BOOLEAN, at \in AttrChoices :
       AddDependency(n, m, c, at)
  \/ \E n, m \in alive, c \in BOOLEAN, at \in AttrChoices :
       AddDependent(n, m, c, at)
  \/ \E n \in alive, t \in Tag : AddTag(n, t)
  \/ \E n \in alive, t \in Tag : RemoveTag(n, t)
  \/ \E n \in alive, d \in Dur : SetDuration(n, d)
  \/ \E n \in alive, st \in Status : SetStatus(n, st)
  \/ \E n, m \in alive, k \in Key, v \in Val : SetEdgeAttribute(n, m, k, v)

(***************************************************************************)
(* Ordering: graphlib.TopologicalSorter fed {node: node.depends_on} for    *)
(* the members.  Predecessors that are not members become nodes of the     *)
(* sorter with no predecessors of their own.                               *)
(***************************************************************************)
SorterNodes(g) == nodes[g] \cup UNION {DependsOn(n) : n \in nodes[g]}

SorterPreds(g, n) == IF n \in nodes[g] THEN DependsOn(n) ELSE {}

\* get_ready()/done() rounds: each round passes out every node whose
\* predecessors have all been marked done.
RECURSIVE KahnLayers(_, _, _)
KahnLayers(g, done, remaining) ==
  LET ready == {n \in remaining : SorterPreds(g, n) \subseteq done}
  IN IF ready = {} THEN <<>>
     ELSE <<ready>> \o KahnLayers(g, done \cup ready, remaining \ ready)

SorterLayers(g) == KahnLayers(g, {}, SorterNodes(g))

\* prepare() raises graphlib.CycleError when the sorter's graph has a cycle.
SorterHasCycle(g) ==
  UNION Range(SorterLayers(g)) # SorterNodes(g)

\* [node for node in seq if node in self._nodes]
RECURSIVE FilterSeq(_, _)
FilterSeq(s, S) ==
  IF s = <<>> THEN <<>>
  ELSE (IF Head(s) \in S THEN <<Head(s)>> ELSE <<>>) \o FilterSeq(Tail(s), S)

\* static_order(): the rounds one after the other, each in the sorter's
\* iteration order.
RECURSIVE StaticOrders(_)
StaticOrders(layers) ==
  IF layers = <<>> THEN {<<>>}
  ELSE {h \o t : h \in Orders(Head(layers)), t \in StaticOrders(Tail(layers))}

\* Graph.topological_order, computed afresh: the lists it may build.
TopoOrders(g) == {FilterSeq(s, nodes[g]) : s \in StaticOrders(SorterLayers(g))}

RECURSIVE FilterLayers(_, _)
FilterLayers(layers, S) ==
  IF layers = <<>> THEN <<>>
  ELSE (IF Head(layers) \cap S # {} THEN <<Head(layers) \cap S>> ELSE <<>>)
         \o FilterLayers(Tail(layers), S)

\* Graph.parallelized_topological_order, computed afresh.
ParLayers(g) == FilterLayers(SorterLayers(g), nodes[g])

\* What topological_order() returns: the cached list when there is one, else
\* one of the freshly built lists (none when the sorter raises).
TopoReturns(g) ==
  IF topoCache[g].set THEN {topoCache[g].val}
  ELSE IF SorterHasCycle(g) THEN {} ELSE TopoOrders(g)

\* What parallelized_topological_order() returns.
ParReturns(g) ==
  IF parCache[g].set THEN {parCache[g].val}
  ELSE IF SorterHasCycle(g) THEN {} ELSE {ParLayers(g)}

TopologicalOrder(g) ==
  /\ Step
  /\ IF topoCache[g].set
     THEN /\ last' = Call("topological_order", g, "a", "a", "none", <<>>, "list")
          /\ UNCHANGED topoCache
     ELSE IF SorterHasCycle(g)
     THEN /\ last' = Call("topological_order", g, "a", "a", "graphlib.CycleError",
                          <<>>, "None")
          /\ UNCHANGED topoCache
     ELSE /\ \E s \in TopoOrders(g) :
               topoCache' = [topoCache EXCEPT ![g] = Cached(s)]
          /\ last' = Call("topological_order", g, "a", "a", "none", <<>>, "list")
  /\ UNCHANGED <<nodeVars, obsId, observers, nodes, parCache, sumCache>>

\* The cache is set to [] before the sorter is prepared.
ParallelizedTopologicalOrder(g) ==
  /\ Step
  /\ IF parCache[g].set
     THEN /\ last' = Call("parallelized_topological_order", g, "a", "a", "none",
                          <<>>, "list")
          /\ UNCHANGED parCache
     ELSE IF SorterHasCycle(g)
     THEN /\ last' = Call("parallelized_topological_order", g, "a", "a",
                          "graphlib.CycleError", <<>>, "None")
          /\ parCache' = [parCache EXCEPT ![g] = Cached(<<>>)]
     ELSE /\ parCache' = [parCache EXCEPT ![g] = Cached(ParLayers(g))]
          /\ last' = Call("parallelized_topological_order", g, "a", "a", "none",
                          <<>>, "list")
  /\ UNCHANGED <<nodeVars, obsId, observers, nodes, topoCache, sumCache>>

\* Graph.check_cycles
CheckCycles(g) ==
  /\ Step
  /\ last' = Call("check_cycles", g, "a", "a",
                  IF SorterHasCycle(g) THEN "cycle" ELSE "none", <<>>, "None")
  /\ UNCHANGED <<nodeVars, obsId, observers, nodes, cacheVars>>

(***************************************************************************)
(* Checksum.  The digest stands for the sequence of text pieces fed to the *)
(* hasher (BLAKE2b taken as injective on what it is fed).                  *)
(***************************************************************************)
\* Order of str values under Python's string comparison.
StrRank(x) ==
  CASE x = "A" -> 1 [] x = "B" -> 2 [] x = "C" -> 3 [] x = "D" -> 4
    [] x = "color:grey" -> 5 [] x = "diff:unchanged" -> 6
    [] x = "k" -> 7 [] x = "w" -> 8 [] x = "x" -> 9 [] x = "x:edge:B" -> 10
    [] OTHER -> 11

\* The text of a tag, cut into pieces.
TagText(t) == IF t = "x:edge:B" THEN <<"x", ":edge:", "B">> ELSE <<t>>

\* sorted(S): the tags or keys of S in string order (they are distinct).
SortedStr(S) ==
  {s \in Orders(S) : \A i, j \in DOMAIN s : i < j => StrRank(s[i]) <= StrRank(s[j])}

RECURSIVE Concat(_)
Concat(ss) == IF ss = <<>> THEN <<>> ELSE Head(ss) \o Concat(Tail(ss))

RefRank(n) == StrRank(reference(n))

\* sorted(S, key=lambda n: str(n.reference)): a stable sort of whatever
\* order the nodes of S iterate in.
SortedByRef(S) ==
  {s \in Orders(S) : \A i, j \in DOMAIN s : i < j => RefRank(s[i]) <= RefRank(s[j])}

AttrFeed(bag) ==
  LET s == CHOOSE o \in SortedStr({p[1] : p \in bag}) : TRUE
      val(k) == (CHOOSE p \in bag : p[1] = k)[2]
  IN Concat([i \in DOMAIN s |-> <<":attr:", s[i], ":", ToString(val(s[i]))>>])

TagsFeed(n) ==
  LET s == CHOOSE o \in SortedStr(tags[n]) : TRUE
  IN Concat([i \in DOMAIN s |-> <<":tag:">> \o TagText(s[i])])

InternalDependents(g, n) == Dependents(n) \cap nodes[g]

EdgesFeed(n, order) ==
  Concat([i \in DOMAIN order |->
            <<":edge:", reference(order[i])>> \o AttrFeed(dependents[n][order[i]])])

NodeFeeds(g, n) ==
  {<<reference(n), ":duration:", ToString(duration[n]), ":status:", status[n]>>
     \o TagsFeed(n) \o EdgesFeed(n, o) : o \in SortedByRef(InternalDependents(g, n))}

RECURSIVE FeedsAlong(_, _)
FeedsAlong(g, order) ==
  IF order = <<>> THEN {<<>>}
  ELSE {h \o t : h \in NodeFeeds(g, Head(order)), t \in FeedsAlong(g, Tail(order))}

\* Graph.checksum, computed afresh: the digests it may produce.
Checksums(g) == UNION {FeedsAlong(g, o) : o \in SortedByRef(nodes[g])}

Checksum(g) ==
  /\ Step
  /\ IF sumCache[g].set
     THEN UNCHANGED sumCache
     ELSE \E c \in Checksums(g) : sumCache' = [sumCache EXCEPT ![g] = Cached(c)]
  /\ last' = Call("checksum", g, "a", "a", "none", <<>>, "str")
  /\ UNCHANGED <<nodeVars, obsId, observers, nodes, topoCache, parCache>>

Query ==
  \/ \E g \in Graph : TopologicalOrder(g)
  \/ \E g \in Graph : ParallelizedTopologicalOrder(g)
  \/ \E g \in Graph : CheckCycles(g)
  \/ \E g \in Graph : Checksum(g)

(***************************************************************************)
(* Derived graphs: clone and transitive_reduction build a new Graph over   *)
(* shallow copies (copy.copy) of the members.  A shallow copy shares the   *)
(* _observers WeakSet of its original; tags are copied explicitly.         *)
(***************************************************************************)
\* A graph slot in the state of a newly constructed Graph().
Fresh(h) ==
  /\ nodes[h] = {}
  /\ ~topoCache[h].set /\ ~parCache[h].set /\ ~sumCache[h].set
  /\ \A i \in Node : h \notin observers[i]

\* Transitive closure of a set of pairs.
RECURSIVE Closure(_)
Closure(R) ==
  LET R2 == R \cup {<<x[1][1], x[2][2]>> : x \in {y \in R \X R : y[1][2] = y[2][1]}}
  IN IF R2 = R THEN R ELSE Closure(R2)

Acyclic(R) == \A e \in Closure(R) : e[1] # e[2]

\* Edges the loop "for u in self._nodes: for v, attrs in self.neighbors(u)"
\* of clone passes to new_graph.add_edge.
CloneEdges(g) == {<<u, v>> \in nodes[g] \X nodes[g] : v \in Dependents(u)}

\* A reduction that drops (u, v) as soon as u has another dependent.
RedundantEdgesIgnoringPaths(g) ==
  {<<u, v>> \in nodes[g] \X Node :
     v \in Dependents(u) /\ \E w \in Dependents(u) \ {v} : TRUE}

\* transitive_reduction, step 2: (u, v) is redundant when another dependent
\* w of u has a path to v.
RedundantEdges(g) ==
  {<<u, v>> \in nodes[g] \X Node :
     v \in Dependents(u) /\ \E w \in Dependents(u) \ {v} : FindPaths(w, v) # {}}

\* transitive_reduction, step 3: the edges passed to new_graph.add_edge.
ReducedEdges(g) ==
  {<<u, v>> \in nodes[g] \X Node : v \in Dependents(u)} \ RedundantEdges(g)

\* Builds Graph(copies) in slot h and adds the edges E between the copies,
\* each with the attributes the source node holds for it.
Derive(op, g, h, E) ==
  LET members == nodes[g]
      copies == {CopyOf(n) : n \in members}
      orig(c) == CHOOSE n \in members : CopyOf(n) = c
      internal == {e \in E : e[2] \in members}
      ends(F) == {CopyOf(e[1]) : e \in F} \cup {CopyOf(e[2]) : e \in F}
      obsId1 == [i \in Node |-> IF i \in copies THEN obsId[orig(i)] ELSE obsId[i]]
      obs1 == [i \in Node |->
                 observers[i] \cup
                   (IF \E n \in members : obsId[n] = i THEN {h} ELSE {})]
      toldBy(F) == UNION {obs1[obsId1[c]] : c \in ends(F)}
  IN /\ Step
     /\ g # h /\ Fresh(h)
     /\ members \subseteq Orig \cup {"a3"} /\ copies \cap alive = {}
     /\ IF internal = E /\ Acyclic(E)
        THEN /\ alive' = alive \cup copies
             /\ obsId' = obsId1
             /\ observers' = obs1
             /\ nodes' = [nodes EXCEPT ![h] = copies]
             /\ tags' = [i \in Node |-> IF i \in copies THEN tags[orig(i)] ELSE tags[i]]
             /\ duration' = [i \in Node |->
                               IF i \in copies THEN duration[orig(i)] ELSE duration[i]]
             /\ status' = [i \in Node |->
                             IF i \in copies THEN status[orig(i)] ELSE status[i]]
             /\ dependents' =
                  [i \in Node |->
                     IF i \in copies
                     THEN [c \in {CopyOf(e[2]) : e \in {f \in E : f[1] = orig(i)}} |->
                             dependents[orig(i)][orig(c)]]
                     ELSE dependents[i]]
             /\ depends_on' =
                  [i \in Node |->
                     IF i \in copies
                     THEN [c \in {CopyOf(e[1]) : e \in {f \in E : f[2] = orig(i)}} |->
                             dependents[orig(c)][orig(i)]]
                     ELSE depends_on[i]]
             /\ topoCache' = Inval(topoCache, toldBy(E))
             /\ parCache' = Inval(parCache, toldBy(E))
             /\ sumCache' = Inval(sumCache, toldBy(E))
             /\ last' = Call(op, g, "a", "a", "none", <<>>, h)
        ELSE \* an add_edge raises part-way; the new graph is dropped
             \E F \in SUBSET internal, e \in E :
               /\ e \notin F /\ Acyclic(F)
               /\ e[2] \notin members \/ ~Acyclic(F \cup {e})
               /\ topoCache' = Inval(topoCache, toldBy(F) \ {h})
               /\ parCache' = Inval(parCache, toldBy(F) \ {h})
               /\ sumCache' = Inval(sumCache, toldBy(F) \ {h})
               /\ last' = Call(op, g, "a", "a",
                               IF e[2] \notin members THEN "KeyError" ELSE "cycle",
                               <<>>, "None")
               /\ UNCHANGED <<nodeVars, obsId, observers, nodes>>

\* Graph.clone(include_edges)
Clone(g, h, include_edges) ==
  Derive("clone", g, h, IF include_edges THEN CloneEdges(g) ELSE {})

\* A reduction done in place: the redundant edges are deleted from the
\* source nodes and the new graph holds those same nodes.
TransitiveReductionInPlace(g, h) ==
  LET keep(n, m) == <<n, m>> \notin RedundantEdges(g)
  IN /\ Step
     /\ g # h /\ Fresh(h)
     /\ dependents' = [n \in Node |->
                         [m \in {x \in Dependents(n) : keep(n, x)} |-> dependents[n][m]]]
     /\ depends_on' = [n \in Node |->
                         [m \in {x \in DependsOn(n) : keep(x, n)} |-> depends_on[n][m]]]
     /\ nodes' = [nodes EXCEPT ![h] = nodes[g]]
     /\ observers' = [i \in Node |->
                        observers[i] \cup
                          (IF \E n \in nodes[g] : obsId[n] = i THEN {h} ELSE {})]
     /\ topoCache' = Inval(topoCache, {g, h})
     /\ parCache' = Inval(parCache, {g, h})
     /\ sumCache' = Inval(sumCache, {g, h})
     /\ last' = Call("transitive_reduction", g, "a", "a", "none", <<>>, h)
     /\ UNCHANGED <<alive, tags, duration, status, obsId>>

\* Graph.transitive_reduction
TransitiveReduction(g, h) ==
  Derive("transitive_reduction", g, h, ReducedEdges(g))

Derived ==
  \/ \E g, h \in Graph, ie \in BOOLEAN : Clone(g, h, ie)
  \/ \E g, h \in Graph : TransitiveReduction(g, h)

Next == GraphMutation \/ NodeMutation \/ Query \/ Derived

Spec == Init /\ [][Next]_vars

(***************************************************************************)
(* The Graph API alone: add_node, add_edge, remove_edge and remove_node on *)
(* two graphs that share three nodes, with the cycle and order queries.    *)
(***************************************************************************)
InitAPI == InitNodes({"a", "b", "c"}) /\ InitGraphs /\ budget = MaxOps + 1

NextAPI ==
  \/ GraphMutation
  \/ \E g \in Graph : TopologicalOrder(g)
  \/ \E g \in Graph : CheckCycles(g)

SpecAPI == InitAPI /\ [][NextAPI]_vars

(***************************************************************************)
(* Relations read off the node dicts.                                      *)
(***************************************************************************)
\* u -> v for every entry v of u.dependents
DependentsRel == {<<u, v>> \in Node \X Node : v \in Dependents(u)}

\* u -> v for every entry u of v.depends_on, between members of g
MemberDependsOnRel(g) ==
  {<<u, v>> \in nodes[g] \X nodes[g] : u \in DependsOn(v)}

\* C1: consistency invariant.  After any sequence of public mutations on
\* nodes that started edgeless, for every pair of nodes u, v: u is in
\* v.depends_on if and only if v is in u.dependents; remove_node(n) leaves
\* no node, n included, with an unmatched entry.
Consistency ==
  \A u, v \in Node : (u \in DependsOn(v)) <=> (v \in Dependents(u))

\* C2: acyclicity invariant.  After any sequence of Graph.add_node,
\* add_edge, remove_edge and remove_node calls on graphs sharing nodes, no
\* graph's members contain a directed cycle through depends_on, and
\* check_cycles() and topological_order() never raise.
Acyclicity ==
  /\ \A g \in Graph : Acyclic(MemberDependsOnRel(g))
  /\ last.op \in {"check_cycles", "topological_order"} => last.err = "none"

\* The cycle add_edge reports for a rejected edge u -> v: it starts and ends
\* with the same node, every step but the last is a dependents entry and the
\* last step is the proposed edge.
WellFormedCycle(c, u, v) ==
  /\ Len(c) >= 2
  /\ c[1] = c[Len(c)]
  /\ c[Len(c) - 1] = u /\ c[Len(c)] = v
  /\ \A i \in 1..(Len(c) - 2) : c[i + 1] \in Dependents(c[i])

\* C4: Graph.add_edge(u, v) raises GraphCycleError when u is v or a directed
\* path from v to u exists, through members or non-members; the cycle it
\* carries is well formed and closes with the proposed edge; the rejected
\* call leaves member sets, edges and caches unchanged.
CycleRejected ==
  [][(ops' # ops /\ last'.op = "add_edge"
        /\ (last'.u = last'.v \/ <<last'.v, last'.u>> \in Closure(DependentsRel)))
       => /\ last'.err = "cycle"
          /\ WellFormedCycle(last'.cycle, last'.u, last'.v)
          /\ UNCHANGED <<nodes, dependents, depends_on, observers,
                         topoCache, parCache, sumCache>>]_vars

\* C4 witness: an edge closing a cycle of three nodes through a non-member
\* was rejected while an order was cached.
CycleRejectedSeen ==
  /\ last.op = "add_edge" /\ last.err = "cycle"
  /\ Len(last.cycle) = 4
  /\ \E n \in Range(last.cycle) : n \notin nodes[last.g]
  /\ \E g \in Graph : topoCache[g].set

\* C5: acyclic additions always succeed.  In every state reachable through
\* Graph API calls on nodes that started edgeless, add_edge(u, v) with
\* u # v and no directed path from v to u completes without error, and
\* afterwards both are members, v is in u.dependents, u is in v.depends_on
\* and both entries hold the given attributes.
AcyclicAdditionsSucceed ==
  [][\A g \in Graph, u, v \in Node, at \in AttrChoices :
       (AddEdge(g, u, v, at) /\ u # v
          /\ <<v, u>> \notin Closure(DependentsRel))
         => /\ last'.err = "none"
            /\ {u, v} \subseteq nodes'[g]
            /\ v \in DOMAIN dependents'[u] /\ u \in DOMAIN depends_on'[v]
            /\ dependents'[u][v] = at /\ depends_on'[v][u] = at]_vars

(***************************************************************************)
(* Views: one node, graphs that hold it, a clone of such a graph, and the  *)
(* cached checksum while the node and its copy are tagged.                 *)
(***************************************************************************)
InitViews == InitNodes({"a"}) /\ InitGraphs /\ budget = MaxOps + 3

NextViews ==
  \/ \E g \in Graph, n \in alive : AddNode(g, n)
  \/ \E g \in Graph, n \in alive : RemoveNode(g, n)
  \/ \E g, h \in Graph, ie \in BOOLEAN : Clone(g, h, ie)
  \/ \E g \in Graph : Checksum(g)
  \/ \E n \in alive, t \in Tag : AddTag(n, t)

SpecViews == InitViews /\ [][NextViews]_vars

\* C3: cache coherence across views.  For every graph G, after any sequence
\* of mutations through any graph or on the nodes, and after derived graphs
\* were created, the cached checksum, topological order and parallel order
\* of G are what a fresh computation on G's members would return.
CacheCoherence ==
  \A g \in Graph :
    /\ sumCache[g].set => sumCache[g].val \in Checksums(g)
    /\ topoCache[g].set => topoCache[g].val \in TopoOrders(g)
    /\ parCache[g].set => parCache[g].val = ParLayers(g)

(***************************************************************************)
(* Shared observers: the state after g1 = Graph([a, b]); g2 = g1.clone().  *)
(* The copies a2, b2 point at the observer sets of a and b, and both       *)
(* graphs are registered in them.  g1 then takes and drops members and is  *)
(* queried while edges are added through g2.                               *)
(***************************************************************************)
InitShared ==
  /\ alive = {"a", "b", "a2", "b2"}
  /\ dependents = [n \in Node |-> EmptyMap]
  /\ depends_on = [n \in Node |-> EmptyMap]
  /\ tags = [n \in Node |-> {}]
  /\ duration = [n \in Node |-> 0]
  /\ status = [n \in Node |-> "pending"]
  /\ obsId = [n \in Node |-> IF n = "a2" THEN "a" ELSE IF n = "b2" THEN "b" ELSE n]
  /\ observers = [n \in Node |-> IF n \in {"a", "b"} THEN {"g1", "g2"} ELSE {}]
  /\ nodes = [g \in Graph |-> IF g = "g1" THEN {"a", "b"} ELSE {"a2", "b2"}]
  /\ topoCache = [g \in Graph |-> NoCache]
  /\ parCache = [g \in Graph |-> NoCache]
  /\ sumCache = [g \in Graph |-> NoCache]
  /\ last = NoCall
  /\ ops = 0
  /\ budget = MaxOps + 3

NextShared ==
  \/ \E g \in Graph, n \in alive : AddNode(g, n)
  \/ \E g \in Graph, n \in alive : RemoveNode(g, n)
  \/ \E u, v \in {"a", "b"} : AddEdge("g2", u, v, {})
  \/ \E g \in Graph : TopologicalOrder(g)
  \/ \E g \in Graph : ParallelizedTopologicalOrder(g)

SpecShared == InitShared /\ [][NextShared]_vars

\* Edges between two members of g: the entry is on both endpoints.
InternalEdges(g) ==
  {<<u, v>> \in nodes[g] \X nodes[g] : v \in Dependents(u) /\ u \in DependsOn(v)}

\* Position of x in the sequence s (0 when absent).
Index(s, x) ==
  IF x \in Range(s) THEN CHOOSE i \in DOMAIN s : s[i] = x ELSE 0

\* C6: whenever topological_order() returns, the result lists every member
\* exactly once and no non-member, and for every edge between two members
\* the dependency appears before its dependent, also when members have
\* edges to nodes outside the graph.
TopologicalOrderSound ==
  \A g \in Graph : \A r \in TopoReturns(g) :
    /\ Len(r) = Cardinality(nodes[g])
    /\ Range(r) = nodes[g]
    /\ \A e \in InternalEdges(g) : Index(r, e[1]) < Index(r, e[2])

\* The diamond A -> B, A -> C, B -> D, C -> D over the four originals.
Diamond == {<<"a", "b">>, <<"a", "c">>, <<"b", "d">>, <<"c", "d">>}

\* C7: parallelized_topological_order() on an acyclic graph returns
\* non-empty layers that partition the member set, every dependency of a
\* member that is itself a member lies in a strictly earlier layer, and the
\* diamond A -> B, A -> C, B -> D, C -> D yields exactly [{A}, {B, C}, {D}].
ParallelLayersSound ==
  \A g \in Graph : Acyclic(MemberDependsOnRel(g)) =>
    \A r \in ParReturns(g) :
      /\ \A i \in DOMAIN r : r[i] # {}
      /\ UNION Range(r) = nodes[g]
      /\ \A i, j \in DOMAIN r : i # j => r[i] \cap r[j] = {}
      /\ \A i, j \in DOMAIN r : \A m \in r[i] : \A d \in DependsOn(m) \cap r[j] : j < i
      /\ (nodes[g] = Orig /\ MemberDependsOnRel(g) = Diamond)
           => r = <<{"a"}, {"b", "c"}, {"d"}>>

(***************************************************************************)
(* Transitive reduction as a function of the graph: the initial states are *)
(* the acyclic edge sets over the four originals, built consistently on    *)
(* both endpoints, with any subset of the nodes as members of g1.  The     *)
(* edges leaving the node `heavy` carry the attribute w = 1.               *)
(***************************************************************************)
OrigPairs == {e \in Orig \X Orig : e[1] # e[2]}

InitDag ==
  /\ \E E \in {F \in SUBSET OrigPairs : Acyclic(F)}, M \in SUBSET Orig,
        heavy \in Orig :
       /\ dependents =
            [n \in Node |->
               [m \in {x \in Orig : <<n, x>> \in E} |->
                  IF n = heavy THEN {<<"w", 1>>} ELSE {}]]
       /\ depends_on =
            [n \in Node |->
               [m \in {x \in Orig : <<x, n>> \in E} |->
                  IF m = heavy THEN {<<"w", 1>>} ELSE {}]]
       /\ nodes = [g \in Graph |-> IF g = "g1" THEN M ELSE {}]
       /\ observers = [n \in Node |-> IF n \in M THEN {"g1"} ELSE {}]
  /\ alive = Orig
  /\ tags = [n \in Node |-> {}]
  /\ duration = [n \in Node |-> 0]
  /\ status = [n \in Node |-> "pending"]
  /\ obsId = [n \in Node |-> n]
  /\ topoCache = [g \in Graph |-> NoCache]
  /\ parCache = [g \in Graph |-> NoCache]
  /\ sumCache = [g \in Graph |-> NoCache]
  /\ last = NoCall
  /\ ops = 0
  /\ budget = MaxOps

NextDag == \E g, h \in Graph : TransitiveReduction(g, h)

SpecDag == InitDag /\ [][NextDag]_vars

\* Descendants: v is reachable from u over dependents entries.
Descendant(u, v) == <<u, v>> \in Closure(DependentsRel)

\* The members of g are acyclic and have no edge to a non-member.
ClosedDag(g) ==
  /\ Acyclic(MemberDependsOnRel(g))
  /\ \A n \in nodes[g] : Dependents(n) \cup DependsOn(n) \subseteq nodes[g]

\* C8: transitive reduction preserves reachability.  For an acyclic graph G
\* whose members have no edges to non-members, R = G.transitive_reduction()
\* has exactly one node per member of G with the same reference, every edge
\* of R is an edge of G with the same attributes, v is a descendant of u in
\* G exactly when the copy of v is a descendant of the copy of u in R, and
\* for A -> B, B -> C, A -> C exactly the edge A -> C is dropped.
ReductionPreservesReachability ==
  (last.op = "transitive_reduction" /\ ClosedDag(last.g)) =>
    LET G == nodes[last.g]
        R == nodes[last.ret]
    IN /\ last.err = "none"
       /\ Cardinality(R) = Cardinality(G)
       /\ \A n \in G : \E c \in R : \A k \in R : reference(k) = reference(n) <=> k = c
       /\ \A u, v \in G :
            CopyOf(v) \in Dependents(CopyOf(u)) =>
              /\ v \in Dependents(u)
              /\ dependents[CopyOf(u)][CopyOf(v)] = dependents[u][v]
              /\ depends_on[CopyOf(v)][CopyOf(u)] = dependents[u][v]
       /\ \A x \in R : Dependents(x) \cup DependsOn(x) \subseteq R
       /\ \A u, v \in G : Descendant(u, v) <=> Descendant(CopyOf(u), CopyOf(v))
       /\ (G = {"a", "b", "c"}
             /\ {e \in DependentsRel : e[1] \in G} =
                  {<<"a", "b">>, <<"b", "c">>, <<"a", "c">>})
            => {e \in DependentsRel : e[1] \in R} =
                 {<<"a2", "b2">>, <<"b2", "c2">>}

\* C8 witness: the triangle A -> B, B -> C, A -> C, with attributes on the
\* edges leaving A, has been reduced.
TriangleReduced ==
  /\ last.op = "transitive_reduction" /\ last.err = "none"
  /\ nodes[last.g] = {"a", "b", "c"}
  /\ {e \in DependentsRel : e[1] \in nodes[last.g]} =
       {<<"a", "b">>, <<"b", "c">>, <<"a", "c">>}
  /\ dependents["a"]["b"] = {<<"w", 1>>}
  /\ "b2" \in Dependents("a2") /\ dependents["a2"]["b2"] = {<<"w", 1>>}

(***************************************************************************)
(* Checksum as a function of the graph: two nodes A and B and a second     *)
(* pair of node objects with the same references; the initial states draw  *)
(* the tags and duration of the two A nodes, the edge A -> B of each pair  *)
(* and the member sets of the two graphs.                                  *)
(***************************************************************************)
EdgeChoices == {EmptyMap} \cup {[m \in {"x"} |-> at] : at \in AttrChoices}

\* The dict holding the one entry of m under the key k.
Rekey(m, k) == [x \in (IF DOMAIN m = {} THEN {} ELSE {k}) |-> m["x"]]

InitSum ==
  /\ alive = {"a", "b", "a2", "b2"}
  /\ \E e1, e2 \in EdgeChoices :
       /\ dependents = [n \in Node |-> IF n = "a" THEN Rekey(e1, "b")
                                       ELSE IF n = "a2" THEN Rekey(e2, "b2")
                                       ELSE EmptyMap]
       /\ depends_on = [n \in Node |-> IF n = "b" THEN Rekey(e1, "a")
                                       ELSE IF n = "b2" THEN Rekey(e2, "a2")
                                       ELSE EmptyMap]
  /\ \E t1, t2 \in SUBSET Tag :
       tags = [n \in Node |-> IF n = "a" THEN t1 ELSE IF n = "a2" THEN t2 ELSE {}]
  /\ \E d \in Dur : duration = [n \in Node |-> IF n = "a" THEN d ELSE 0]
  /\ status = [n \in Node |-> "pending"]
  /\ obsId = [n \in Node |-> n]
  /\ \E M1 \in SUBSET {"a", "b", "a2"}, M2 \in SUBSET {"a", "a2", "b2"} :
       /\ nodes = [g \in Graph |-> IF g = "g1" THEN M1 ELSE M2]
       /\ observers = [n \in Node |-> (IF n \in M1 THEN {"g1"} ELSE {}) \cup
                                      (IF n \in M2 THEN {"g2"} ELSE {})]
  /\ topoCache = [g \in Graph |-> NoCache]
  /\ parCache = [g \in Graph |-> NoCache]
  /\ sumCache = [g \in Graph |-> NoCache]
  /\ last = NoCall
  /\ ops = 0
  /\ budget = MaxOps

NextSum == \E g \in Graph : Checksum(g)

SpecSum == InitSum /\ [][NextSum]_vars

\* A member as the checksum is meant to see it.
MemberContent(n) == <<reference(n), tags[n], duration[n], status[n]>>

\* An internal edge as the checksum is meant to see it.
EdgeContent(e) == <<reference(e[1]), reference(e[2]), dependents[e[1]][e[2]]>>

\* The content of a graph: its members by reference, tags, duration and
\* status, and its internal edges with their attributes, each with the
\* number of times it occurs.
Content(g) ==
  [members |->
     {<<MemberContent(n),
        Cardinality({m \in nodes[g] : MemberContent(m) = MemberContent(n)})>>
        : n \in nodes[g]},
   edges |->
     {<<EdgeContent(e),
        Cardinality({f \in CloneEdges(g) : EdgeContent(f) = EdgeContent(e)})>>
        : e \in CloneEdges(g)}]

\* C9: the checksum is insertion-order independent.  Two graphs with the
\* same member references, the same tags, duration and status per member
\* and the same internal edges with the same attributes return equal
\* checksums, whatever the insertion order and however the member set
\* happens to be iterated.
ChecksumOrderIndependent ==
  \A g, h \in Graph :
    (g # h /\ sumCache[g].set /\ sumCache[h].set /\ Content(g) = Content(h))
      => sumCache[g].val = sumCache[h].val

\* C10: the checksum changes if and only if member content changes.  Two
\* graphs that differ in their member references, in some member's tags,
\* duration or status, or in the internal edges or their attributes feed
\* different byte sequences to the hash, while differences confined to
\* non-members or to edges with a non-member endpoint leave it unchanged.
ChecksumTracksContent ==
  \A g, h \in Graph :
    (g # h /\ sumCache[g].set /\ sumCache[h].set) =>
      /\ Content(g) # Content(h) => sumCache[g].val # sumCache[h].val
      /\ (Content(g) = Content(h)
            /\ \A n, m \in nodes[g] \cup nodes[h] :
                 (n # m /\ reference(n) = reference(m))
                   => ~({n, m} \subseteq nodes[g] \/ {n, m} \subseteq nodes[h]))
           => sumCache[g].val = sumCache[h].val

(***************************************************************************)
(* Critical path method.  Durations are integers here; the code computes   *)
(* with floats and takes |slack| < 1e-9 for zero slack.                    *)
(***************************************************************************)
Max(S) == CHOOSE x \in S : \A y \in S : y <= x

Min(S) == CHOOSE x \in S : \A y \in S : x <= y

\* cpm_analysis, forward pass over the first k nodes of topo_order: max_ef
\* starts at 0.0 and takes the EF of every dependency that is in analysis.
RECURSIVE CpmForward(_, _)
CpmForward(order, k) ==
  IF k = 0
  THEN [n \in Range(order) |-> [ES |-> 0, EF |-> 0, LS |-> 0, LF |-> 0, slack |-> 0]]
  ELSE LET prev == CpmForward(order, k - 1)
           node == order[k]
           max_ef == Max({0} \cup {prev[d].EF : d \in DependsOn(node) \cap Range(order)})
       IN [prev EXCEPT ![node].ES = max_ef, ![node].EF = max_ef + duration[node]]

\* cpm_analysis, backward pass over the last k nodes of topo_order.
RECURSIVE CpmBackward(_, _)
CpmBackward(order, k) ==
  IF k = 0 THEN CpmForward(order, Len(order))
  ELSE LET prev == CpmBackward(order, k - 1)
           node == order[Len(order) - k + 1]
           max_total_ef == Max({prev[n].EF : n \in Range(order)})
           deps == Dependents(node) \cap Range(order)
           min_ls == IF deps = {} THEN max_total_ef
                     ELSE Min({prev[d].LS : d \in deps})
       IN [prev EXCEPT ![node].LF = min_ls,
                       ![node].LS = min_ls - duration[node],
                       ![node].slack = min_ls - prev[node].EF]

\* The dict cpm_analysis builds from the list topological_order() returned.
CpmOf(order) == IF order = <<>> THEN <<>> ELSE CpmBackward(order, Len(order))

\* critical_path: the nodes of the order whose slack is zero.
RECURSIVE CriticalOf(_, _)
CriticalOf(order, analysis) ==
  IF order = <<>> THEN <<>>
  ELSE (IF analysis[Head(order)].slack = 0 THEN <<Head(order)>> ELSE <<>>)
         \o CriticalOf(Tail(order), analysis)

\* Graph.cpm_analysis: topological_order() may raise from the sorter; else
\* the list is cached and the analysis built along it is returned.
CpmAnalysis(g) ==
  /\ Step
  /\ IF TopoReturns(g) = {}
     THEN /\ last' = Call("cpm_analysis", g, "a", "a", "graphlib.CycleError",
                          <<>>, "None")
          /\ UNCHANGED topoCache
     ELSE \E order \in TopoReturns(g) :
            /\ topoCache' = [topoCache EXCEPT ![g] = Cached(order)]
            /\ last' = Call("cpm_analysis", g, "a", "a", "none", <<>>,
                            CpmOf(order))
  /\ UNCHANGED <<nodeVars, obsId, observers, nodes, parCache, sumCache>>

\* Graph.critical_path: cpm_analysis(), then the cached order filtered.
CriticalPath(g) ==
  /\ Step
  /\ IF TopoReturns(g) = {}
     THEN /\ last' = Call("critical_path", g, "a", "a", "graphlib.CycleError",
                          <<>>, "None")
          /\ UNCHANGED topoCache
     ELSE \E order \in TopoReturns(g) :
            /\ topoCache' = [topoCache EXCEPT ![g] = Cached(order)]
            /\ last' = Call("critical_path", g, "a", "a", "none", <<>>,
                            CriticalOf(order, CpmOf(order)))
  /\ UNCHANGED <<nodeVars, obsId, observers, nodes, parCache, sumCache>>

(***************************************************************************)
(* CPM as a function of the graph: the initial states are the acyclic edge *)
(* sets over the four originals with any subset of them as members of g1,  *)
(* and one of two duration assignments.                                    *)
(***************************************************************************)
DurationChoices ==
  {[n \in Node |-> IF n \in Orig THEN 1 ELSE 0],
   [n \in Node |-> CASE n = "a" -> 2 [] n = "b" -> 3 [] n = "c" -> 1
                     [] n = "d" -> 4 [] OTHER -> 0]}

InitCpm ==
  /\ \E E \in {F \in SUBSET OrigPairs : Acyclic(F)}, M \in SUBSET Orig :
       /\ dependents = [n \in Node |-> [m \in {x \in Orig : <<n, x>> \in E} |-> {}]]
       /\ depends_on = [n \in Node |-> [m \in {x \in Orig : <<x, n>> \in E} |-> {}]]
       /\ nodes = [g \in Graph |-> IF g = "g1" THEN M ELSE {}]
       /\ observers = [n \in Node |-> IF n \in M THEN {"g1"} ELSE {}]
  /\ duration \in DurationChoices
  /\ alive = Orig
  /\ tags = [n \in Node |-> {}]
  /\ status = [n \in Node |-> "pending"]
  /\ obsId = [n \in Node |-> n]
  /\ topoCache = [g \in Graph |-> NoCache]
  /\ parCache = [g \in Graph |-> NoCache]
  /\ sumCache = [g \in Graph |-> NoCache]
  /\ last = NoCall
  /\ ops = 0
  /\ budget = MaxOps - 2

NextCpm == CpmAnalysis("g1") \/ CriticalPath("g1")

SpecCpm == InitCpm /\ [][NextCpm]_vars

\* The chain A -> B -> C -> D.
Chain == {<<"a", "b">>, <<"b", "c">>, <<"c", "d">>}

\* The durations A 2, B 3, C 1, D 4 of the examples.
ExampleDurations ==
  duration["a"] = 2 /\ duration["b"] = 3 /\ duration["c"] = 1 /\ duration["d"] = 4

\* C11: CPM equations.  For every non-empty acyclic graph cpm_analysis()
\* returns for each member n: ES = max EF over member dependencies (0 if
\* none), EF = ES + duration, LF = min LS over member dependents (the
\* project duration max EF if none), LS = LF - duration, slack = LF - EF;
\* critical_path() is exactly the members with zero slack, in topological
\* order; the chain A(2) B(3) C(1) D(4) gives [A, B, C, D] with duration 10,
\* the diamond gives [A, B, D], duration 9 and slack(C) = 2; on an empty
\* graph both results are empty.
CpmEquations ==
  LET g == last.g
      M == nodes[g]
      R == last.ret
      deps(n) == DependsOn(n) \cap M
      subs(n) == Dependents(n) \cap M
  IN /\ (last.op \in {"cpm_analysis", "critical_path"}
           /\ Acyclic(MemberDependsOnRel(g))) => last.err = "none"
     /\ (last.op = "cpm_analysis" /\ last.err = "none" /\ M = {}) => R = <<>>
     /\ (last.op = "critical_path" /\ last.err = "none" /\ M = {}) => R = <<>>
     /\ (last.op = "cpm_analysis" /\ last.err = "none" /\ M # {}) =>
          /\ DOMAIN R = M
          /\ \A n \in M :
               /\ R[n].ES = IF deps(n) = {} THEN 0 ELSE Max({R[d].EF : d \in deps(n)})
               /\ R[n].EF = R[n].ES + duration[n]
               /\ R[n].LF = IF subs(n) = {} THEN Max({R[m].EF : m \in M})
                            ELSE Min({R[d].LS : d \in subs(n)})
               /\ R[n].LS = R[n].LF - duration[n]
               /\ R[n].slack = R[n].LF - R[n].EF
          /\ (M = Orig /\ ExampleDurations /\ MemberDependsOnRel(g) = Chain)
               => Max({R[m].EF : m \in M}) = 10
          /\ (M = Orig /\ ExampleDurations /\ MemberDependsOnRel(g) = Diamond)
               => Max({R[m].EF : m \in M}) = 9 /\ R["c"].slack = 2
     /\ (last.op = "critical_path" /\ last.err = "none" /\ M # {}) =>
          /\ \A A \in {CpmOf(o) : o \in TopoReturns(g)} :
               Range(R) = {n \in M : A[n].slack = 0}
          /\ \A i, j \in DOMAIN R :
               i < j => R[i] # R[j] /\ <<R[j], R[i]>> \notin Closure(MemberDependsOnRel(g))
          /\ (M = Orig /\ ExampleDurations /\ MemberDependsOnRel(g) = Chain)
               => R = <<"a", "b", "c", "d">>
          /\ (M = Orig /\ ExampleDurations /\ MemberDependsOnRel(g) = Diamond)
               => R = <<"a", "b", "d">>

(***************************************************************************)
(* CPM on a graph and its clone: the state after b.duration = 1;           *)
(* g1 = Graph([a, b]); g2 = g1.clone().  As in SpecShared the graphs take  *)
(* and drop members and edges are added through g2, and the analysis is    *)
(* asked of either graph.                                                  *)
(***************************************************************************)
InitSharedCpm ==
  /\ alive = {"a", "b", "a2", "b2"}
  /\ dependents = [n \in Node |-> EmptyMap]
  /\ depends_on = [n \in Node |-> EmptyMap]
  /\ tags = [n \in Node |-> {}]
  /\ duration = [n \in Node |-> IF n \in {"b", "b2"} THEN 1 ELSE 0]
  /\ status = [n \in Node |-> "pending"]
  /\ obsId = [n \in Node |-> IF n = "a2" THEN "a" ELSE IF n = "b2" THEN "b" ELSE n]
  /\ observers = [n \in Node |-> IF n \in {"a", "b"} THEN {"g1", "g2"} ELSE {}]
  /\ nodes = [g \in Graph |-> IF g = "g1" THEN {"a", "b"} ELSE {"a2", "b2"}]
  /\ topoCache = [g \in Graph |-> NoCache]
  /\ parCache = [g \in Graph |-> NoCache]
  /\ sumCache = [g \in Graph |-> NoCache]
  /\ last = NoCall
  /\ ops = 0
  /\ budget = MaxOps + 1

NextSharedCpm ==
  \/ \E g \in Graph, n \in alive : AddNode(g, n)
  \/ \E g \in Graph, n \in alive : RemoveNode(g, n)
  \/ \E u, v \in {"a", "b"} : AddEdge("g2", u, v, {})
  \/ \E g \in Graph : CpmAnalysis(g)
  \/ \E g \in Graph : CriticalPath(g)

SpecSharedCpm == InitSharedCpm /\ [][NextSharedCpm]_vars

(***************************************************************************)
(* Graph.diff.  Both graphs are read through Python sets, so the node      *)
(* that graph[reference] returns and the edge that ends up under a         *)
(* (source reference, target reference) key depend on the order the        *)
(* member set iterates in; an unchanged set iterates in the same order     *)
(* every time.                                                             *)
(***************************************************************************)
Refs(g) == {reference(n) : n \in nodes[g]}

\* Graph.__getitem__: the first member, in iteration order, with the
\* reference.
GetItem(g, order, ref) ==
  order[Min({i \in DOMAIN order : reference(order[i]) = ref})]

\* get_edges of Graph.diff: the possible dicts from reference pairs to
\* attributes; a later source overwrites an earlier one under the same key.
GetEdges(g, order) ==
  LET keys == {<<reference(e[1]), reference(e[2])>> : e \in CloneEdges(g)}
      cand(k) == {e \in CloneEdges(g) : <<reference(e[1]), reference(e[2])>> = k}
      lastSrc(k) == order[Max({Index(order, e[1]) : e \in cand(k)})]
  IN {f \in [keys -> Bag] :
        \A k \in keys : \E e \in cand(k) :
          e[1] = lastSrc(k) /\ f[k] = dependents[e[1]][e[2]]}

\* A diff that compares members as objects and only then names them by
\* reference.
DiffOfByObject(g, h, og, oh, ge, he) ==
  [added_nodes |-> {reference(n) : n \in nodes[h] \ nodes[g]},
   removed_nodes |-> {reference(n) : n \in nodes[g] \ nodes[h]},
   modified_nodes |-> {},
   added_edges |-> DOMAIN he \ DOMAIN ge,
   removed_edges |-> DOMAIN ge \ DOMAIN he,
   modified_edges |-> {k \in DOMAIN ge \cap DOMAIN he : ge[k] # he[k]}]

DiffOf(g, h, og, oh, ge, he) ==
  LET common == Refs(g) \cap Refs(h)
  IN [added_nodes |-> Refs(h) \ Refs(g),
      removed_nodes |-> Refs(g) \ Refs(h),
      modified_nodes |->
        {r \in common :
           LET n1 == GetItem(g, og, r)
               n2 == GetItem(h, oh, r)
           IN \/ tags[n1] # tags[n2]
              \/ duration[n1] # duration[n2]
              \/ status[n1] # status[n2]},
      added_edges |-> DOMAIN he \ DOMAIN ge,
      removed_edges |-> DOMAIN ge \ DOMAIN he,
      modified_edges |-> {k \in DOMAIN ge \cap DOMAIN he : ge[k] # he[k]}]

\* The results g.diff(h) may return in the current state.
DiffReturns(g, h) ==
  {DiffOf(g, h, og, oh, ge, he) :
     <<og, oh, ge, he>> \in
       {q \in UNION {UNION {{og} \X {oh} \X GetEdges(g, og) \X GetEdges(h, oh)
                              : oh \in Orders(nodes[h])}
                       : og \in Orders(nodes[g])} :
          g = h => (q[1] = q[2] /\ q[3] = q[4])}}

Diff(g, h) ==
  /\ Step
  /\ \E r \in DiffReturns(g, h) :
       last' = Call("diff", g, h, "a", "none", <<>>, r)
  /\ UNCHANGED <<nodeVars, obsId, observers, nodes, cacheVars>>

\* Two pairs of node objects with the same references; the initial states
\* draw the edge of each pair, the tags, duration and status of one A node
\* and the member sets of the two graphs.
InitDiff ==
  /\ alive = {"a", "b", "a2", "b2"}
  /\ \E e1, e2 \in EdgeChoices :
       /\ dependents = [n \in Node |-> IF n = "a" THEN Rekey(e1, "b")
                                       ELSE IF n = "a2" THEN Rekey(e2, "b2")
                                       ELSE EmptyMap]
       /\ depends_on = [n \in Node |-> IF n = "b" THEN Rekey(e1, "a")
                                       ELSE IF n = "b2" THEN Rekey(e2, "a2")
                                       ELSE EmptyMap]
  /\ \E t \in {{}, {"x"}} : tags = [n \in Node |-> IF n = "a" THEN t ELSE {}]
  /\ \E d \in Dur : duration = [n \in Node |-> IF n = "a" THEN d ELSE 0]
  /\ \E st \in Status :
       status = [n \in Node |-> IF n = "a" THEN st ELSE "pending"]
  /\ obsId = [n \in Node |-> n]
  /\ \E M1 \in SUBSET {"a", "b", "a2"}, M2 \in SUBSET {"a", "a2", "b2"} :
       /\ nodes = [g \in Graph |-> IF g = "g1" THEN M1 ELSE M2]
       /\ observers = [n \in Node |-> (IF n \in M1 THEN {"g1"} ELSE {}) \cup
                                      (IF n \in M2 THEN {"g2"} ELSE {})]
  /\ topoCache = [g \in Graph |-> NoCache]
  /\ parCache = [g \in Graph |-> NoCache]
  /\ sumCache = [g \in Graph |-> NoCache]
  /\ last = NoCall
  /\ ops = 0
  /\ budget = MaxOps - 2

NextDiff == \E g, h \in Graph : Diff(g, h)

SpecDiff == InitDiff /\ [][NextDiff]_vars

\* What diff compares of a node.
NodeProps(n) == <<tags[n], duration[n], status[n]>>

\* The (source reference, target reference) pairs of the edges between
\* members of g.
EdgeRefs(g) == {<<reference(e[1]), reference(e[2])>> : e \in CloneEdges(g)}

\* C12: g.diff(h) compares by reference value.  added_nodes and
\* removed_nodes are the two differences of the member reference sets;
\* modified_nodes holds the common references whose nodes differ in tags,
\* duration or status; the three edge sets are formed the same way over
\* the reference pairs of the edges between members; diff(g, g) is empty in
\* all six categories, and what diff(g, h) reports as added diff(h, g)
\* reports as removed.
DiffByReference ==
  last.op = "diff" =>
    LET g == last.g
        h == last.u
        R == last.ret
        common == Refs(g) \cap Refs(h)
        both == EdgeRefs(g) \cap EdgeRefs(h)
        holders(x, r) == {n \in nodes[x] : reference(n) = r}
        edges(x, k) ==
          {e \in CloneEdges(x) : <<reference(e[1]), reference(e[2])>> = k}
    IN /\ R.added_nodes = Refs(h) \ Refs(g)
       /\ R.removed_nodes = Refs(g) \ Refs(h)
       /\ R.modified_nodes \subseteq common
       /\ \A r \in common :
            /\ (\A n1 \in holders(g, r), n2 \in holders(h, r) :
                  NodeProps(n1) # NodeProps(n2)) => r \in R.modified_nodes
            /\ (\A n1 \in holders(g, r), n2 \in holders(h, r) :
                  NodeProps(n1) = NodeProps(n2)) => r \notin R.modified_nodes
       /\ R.added_edges = EdgeRefs(h) \ EdgeRefs(g)
       /\ R.removed_edges = EdgeRefs(g) \ EdgeRefs(h)
       /\ R.modified_edges \subseteq both
       /\ \A k \in both :
            /\ (\A e \in edges(g, k), f \in edges(h, k) :
                  dependents[e[1]][e[2]] # dependents[f[1]][f[2]])
                 => k \in R.modified_edges
            /\ (\A e \in edges(g, k), f \in edges(h, k) :
                  dependents[e[1]][e[2]] = dependents[f[1]][f[2]])
                 => k \notin R.modified_edges
       /\ g = h =>
            /\ R.added_nodes = {} /\ R.removed_nodes = {}
            /\ R.modified_nodes = {}
            /\ R.added_edges = {} /\ R.removed_edges = {}
            /\ R.modified_edges = {}
       /\ \A B \in DiffReturns(h, g) :
            /\ B.removed_nodes = R.added_nodes
            /\ B.removed_edges = R.added_edges

\* A diff of two graphs over different node objects with the same
\* references reports a modified node and a modified edge, and nothing
\* added or removed.
DiffSeen ==
  /\ last.op = "diff"
  /\ nodes[last.g] = {"a", "b"}
  /\ nodes[last.u] = {"a2", "b2"}
  /\ last.ret.modified_nodes = {"A"}
  /\ last.ret.modified_edges = {<<"A", "B">>}
  /\ last.ret.added_nodes = {}

\* Some edge of n lacks its reverse entry.
HalfEdge(n) ==
  \E m \in Node : \/ m \in DependsOn(n) /\ n \notin Dependents(m)
                  \/ m \in Dependents(n) /\ n \notin DependsOn(m)

\* C13: Graph.add_node(n) returns False and changes nothing when n is
\* already a member.  Otherwise it raises GraphCycleError when n lies on a
\* cycle and GraphConsistencyError when an edge of n lacks its reverse
\* entry, and then n is not added, no observer is registered and no cache is
\* cleared.  On success it returns True, n is a member, the graph observes
\* n and the graph's three caches are cleared.
AddNodeContract ==
  [][\A g \in Graph, n \in Node :
       AddNode(g, n) =>
         IF n \in nodes[g]
         THEN /\ last'.ret = "False" /\ last'.err = "none"
              /\ UNCHANGED <<nodeVars, observers, nodes, cacheVars>>
         ELSE IF <<n, n>> \in Closure(DependentsRel)
         THEN /\ last'.err = "cycle"
              /\ last'.cycle[1] = n /\ last'.cycle[Len(last'.cycle)] = n
              /\ UNCHANGED <<nodeVars, observers, nodes, cacheVars>>
         ELSE IF HalfEdge(n)
         THEN /\ last'.err = "consistency"
              /\ UNCHANGED <<nodeVars, observers, nodes, cacheVars>>
         ELSE /\ last'.ret = "True" /\ last'.err = "none"
              /\ nodes'[g] = nodes[g] \cup {n}
              /\ g \in observers'[obsId[n]]
              /\ ~topoCache'[g].set /\ ~parCache'[g].set /\ ~sumCache'[g].set
              /\ UNCHANGED nodeVars]_vars

\* C13 witness: a node on a cycle was refused while the graph held a cached
\* order, and the order is still cached.
AddNodeRefused ==
  /\ last.op = "add_node" /\ last.err = "cycle"
  /\ last.u \notin nodes[last.g]
  /\ topoCache[last.g].set

(***************************************************************************)
(* Nodes that start edgeless and are linked only through add_dependency    *)
(* and add_dependent with check_cycles=True.                               *)
(***************************************************************************)
NextChecked ==
  \/ \E self, dependency \in alive, attrs \in AttrChoices :
       AddDependency(self, dependency, TRUE, attrs)
  \/ \E self, dependent \in alive, attrs \in AttrChoices :
       AddDependent(self, dependent, TRUE, attrs)

SpecChecked == InitAPI /\ [][NextChecked]_vars

\* C14: add_dependency and add_dependent with check_cycles=True raise
\* GraphCycleError, carrying a cycle whose first and last node are the same,
\* and leave the edges unchanged whenever the new edge would close a directed
\* cycle, a self-dependency included; so a sequence of such calls on nodes
\* that start edgeless never leaves a directed cycle among the nodes.
CheckedLinksStayAcyclic ==
  [][/\ \A self, other \in Node, at \in AttrChoices :
          /\ (AddDependency(self, other, TRUE, at)
                /\ (self = other \/ <<self, other>> \in Closure(DependentsRel)))
               => /\ last'.err = "cycle"
                  /\ last'.cycle[1] = last'.cycle[Len(last'.cycle)]
                  /\ UNCHANGED edgeVars
          /\ (AddDependent(self, other, TRUE, at)
                /\ (self = other \/ <<other, self>> \in Closure(DependentsRel)))
               => /\ last'.err = "cycle"
                  /\ last'.cycle[1] = last'.cycle[Len(last'.cycle)]
                  /\ UNCHANGED edgeVars
     /\ Acyclic({e \in Node \X Node : e[2] \in DOMAIN dependents'[e[1]]})]_vars

\* C15: a no-op add notifies nobody.  add_tag of a tag the node already
\* has, and add_dependency / add_dependent of an edge that exists with the
\* same attributes, clear no graph's caches, whereas a call that really
\* changes the node clears the caches of every graph registered as its
\* observer.
NoOpAddsAreSilent ==
  [][/\ \A n \in Node, t \in Tag :
          AddTag(n, t) =>
            IF t \in tags[n] THEN UNCHANGED cacheVars
            ELSE \A g \in observers[obsId[n]] :
                   ~topoCache'[g].set /\ ~parCache'[g].set /\ ~sumCache'[g].set
     /\ \A self, other \in Node, chk \in BOOLEAN, at \in AttrChoices :
          /\ (AddDependency(self, other, chk, at) /\ last'.err = "none") =>
               IF /\ self \in Dependents(other) /\ dependents[other][self] = at
                  /\ other \in DependsOn(self) /\ depends_on[self][other] = at
               THEN UNCHANGED cacheVars
               ELSE \A g \in observers[obsId[self]] \cup observers[obsId[other]] :
                      ~topoCache'[g].set /\ ~parCache'[g].set /\ ~sumCache'[g].set
          /\ (AddDependent(self, other, chk, at) /\ last'.err = "none") =>
               IF /\ other \in Dependents(self) /\ dependents[self][other] = at
                  /\ self \in DependsOn(other) /\ depends_on[other][self] = at
               THEN UNCHANGED cacheVars
               ELSE \A g \in observers[obsId[self]] \cup observers[obsId[other]] :
                      ~topoCache'[g].set /\ ~parCache'[g].set /\ ~sumCache'[g].set]_vars

(***************************************************************************)
(* Graph.ancestors / Graph.descendants: the depth-first generator          *)
(* _traverse, called with its default limit_to_graph=True.  A node's       *)
(* neighbours are read through the dependents / depends_on properties,     *)
(* which return sets, so they are visited in any order.                    *)
(***************************************************************************)
Neighbors(dir, n) == IF dir = "DOWN" THEN Dependents(n) ELSE DependsOn(n)

\* discover(current) with the neighbours in todo still to come: the
\* possible <<visited, yielded>> pairs when the loop ends.
RECURSIVE Discover(_, _, _, _, _)
Discover(g, dir, todo, visited, out) ==
  IF todo = {} THEN {<<visited, out>>}
  ELSE UNION {
         IF neighbor \in visited \/ neighbor \notin nodes[g]
         THEN Discover(g, dir, todo \ {neighbor}, visited, out)
         ELSE UNION {Discover(g, dir, todo \ {neighbor}, r[1], r[2]) :
                       r \in Discover(g, dir, Neighbors(dir, neighbor),
                                      visited \cup {neighbor},
                                      Append(out, neighbor))}
         : neighbor \in todo}

\* The sequences _traverse(start_node, direction, include_start=False) may
\* yield.
Traverse(g, start_node, dir) ==
  {r[2] : r \in Discover(g, dir, Neighbors(dir, start_node), {start_node}, <<>>)}

Ancestors(g, n) ==
  /\ Step
  /\ n \in alive
  /\ \E r \in Traverse(g, n, "UP") :
       last' = Call("ancestors", g, n, n, "none", <<>>, r)
  /\ UNCHANGED <<nodeVars, obsId, observers, nodes, cacheVars>>

Descendants(g, n) ==
  /\ Step
  /\ n \in alive
  /\ \E r \in Traverse(g, n, "DOWN") :
       last' = Call("descendants", g, n, n, "none", <<>>, r)
  /\ UNCHANGED <<nodeVars, obsId, observers, nodes, cacheVars>>

\* Three nodes linked by add_dependency in any way, cycles and self-loops
\* included, and any of them added to the graph.
AllPairs == {"a", "b", "c"} \X {"a", "b", "c"}

InitReach ==
  /\ alive = {"a", "b", "c"}
  /\ \E E \in SUBSET AllPairs :
       /\ dependents = [n \in Node |-> [m \in {x \in Node : <<n, x>> \in E} |-> {}]]
       /\ depends_on = [n \in Node |-> [m \in {x \in Node : <<x, n>> \in E} |-> {}]]
  /\ tags = [n \in Node |-> {}]
  /\ duration = [n \in Node |-> 0]
  /\ status = [n \in Node |-> "pending"]
  /\ obsId = [n \in Node |-> n]
  /\ \E M \in SUBSET {"a", "b", "c"} :
       /\ nodes = [g \in Graph |-> IF g = "g1" THEN M ELSE {}]
       /\ observers = [n \in Node |-> IF n \in M THEN {"g1"} ELSE {}]
  /\ topoCache = [g \in Graph |-> NoCache]
  /\ parCache = [g \in Graph |-> NoCache]
  /\ sumCache = [g \in Graph |-> NoCache]
  /\ last = NoCall
  /\ ops = 0
  /\ budget = MaxOps - 2

NextReach ==
  \/ \E n \in alive : Ancestors("g1", n)
  \/ \E n \in alive : Descendants("g1", n)

SpecReach == InitReach /\ [][NextReach]_vars

\* C16: ancestors(n) and descendants(n) yield exactly the nodes reachable
\* from n by one or more depends_on, respectively dependents, steps, each
\* once and never n itself, non-members and nodes reachable only through
\* non-members included.
TraversalComplete ==
  last.op \in {"ancestors", "descendants"} =>
    LET n == last.u
        R == last.ret
        down == Closure(DependentsRel)
        reach == IF last.op = "descendants"
                 THEN {m \in Node : <<n, m>> \in down}
                 ELSE {m \in Node : <<m, n>> \in down}
    IN /\ Range(R) = reach \ {n}
       /\ \A i, j \in DOMAIN R : R[i] = R[j] => i = j

(***************************************************************************)
(* Edges built and re-attributed through Graph.add_edge, add_dependency,   *)
(* add_dependent and set_edge_attribute on two nodes.                      *)
(***************************************************************************)
NextAttrs ==
  \/ \E u, v \in alive, at \in AttrChoices : AddEdge("g1", u, v, at)
  \/ \E n, m \in alive, at \in AttrChoices : AddDependency(n, m, FALSE, at)
  \/ \E n, m \in alive, at \in AttrChoices : AddDependent(n, m, FALSE, at)
  \/ \E n, m \in alive, k \in Key, v \in Val : SetEdgeAttribute(n, m, k, v)

InitAttrs == InitNodes({"a", "b"}) /\ InitGraphs /\ budget = MaxOps + 1

SpecAttrs == InitAttrs /\ [][NextAttrs]_vars

\* C17: edge attributes stay symmetric.  After every add_edge,
\* add_dependency, add_dependent (re-adding an edge with other attributes
\* included) and set_edge_attribute from either endpoint, v is in
\* u.dependents exactly when u is in v.depends_on and both entries hold the
\* same attributes; set_edge_attribute on a pair with no edge between them
\* raises KeyError and changes nothing.
EdgeAttributesSymmetric ==
  [][/\ \A u, v \in Node :
          /\ (v \in DOMAIN dependents'[u]) <=> (u \in DOMAIN depends_on'[v])
          /\ v \in DOMAIN dependents'[u] => dependents'[u][v] = depends_on'[v][u]
     /\ (last'.op = "set_edge_attribute"
           /\ last'.v \notin Dependents(last'.u)
           /\ last'.v \notin DependsOn(last'.u))
          => /\ last'.err = "KeyError"
             /\ UNCHANGED <<nodeVars, observers, nodes, cacheVars>>]_vars

\* C17 witness: set_edge_attribute called from the dependent's end of an
\* edge gave it an attribute value no add can give, and both ends hold it.
EdgeReattributed ==
  /\ last.op = "set_edge_attribute" /\ last.err = "none"
  /\ last.v \in DependsOn(last.u) /\ last.v \notin Dependents(last.u)
  /\ depends_on[last.u][last.v] = {<<"w", 2>>}
  /\ dependents[last.v][last.u] = {<<"w", 2>>}

(***************************************************************************)
(* A graph and a graph derived from it.  g1 holds A, B and C (or only A    *)
(* and B) with any of the edges A -> B, B -> C, A -> C; the edges out of A  *)
(* carry w = 1, A has a tag and a duration and B is done.  g2 is built by  *)
(* clone or transitive_reduction, and afterwards either side is mutated    *)
(* through its own graph and its own nodes.                                *)
(***************************************************************************)
Triangle == {<<"a", "b">>, <<"b", "c">>, <<"a", "c">>}

InitCopies ==
  /\ alive = {"a", "b", "c"}
  /\ \E E \in SUBSET Triangle :
       /\ dependents =
            [n \in Node |-> [m \in {x \in Node : <<n, x>> \in E} |->
                               IF n = "a" THEN {<<"w", 1>>} ELSE {}]]
       /\ depends_on =
            [n \in Node |-> [m \in {x \in Node : <<x, n>> \in E} |->
                               IF m = "a" THEN {<<"w", 1>>} ELSE {}]]
  /\ tags = [n \in Node |-> IF n = "a" THEN {"x"} ELSE {}]
  /\ duration = [n \in Node |-> IF n = "a" THEN 1 ELSE 0]
  /\ status = [n \in Node |-> IF n = "b" THEN "done" ELSE "pending"]
  /\ obsId = [n \in Node |-> n]
  /\ \E M \in {{"a", "b", "c"}, {"a", "b"}} :
       /\ nodes = [g \in Graph |-> IF g = "g1" THEN M ELSE {}]
       /\ observers = [n \in Node |-> IF n \in M THEN {"g1"} ELSE {}]
  /\ topoCache = [g \in Graph |-> NoCache]
  /\ parCache = [g \in Graph |-> NoCache]
  /\ sumCache = [g \in Graph |-> NoCache]
  /\ last = NoCall
  /\ ops = 0
  /\ budget = MaxOps

\* The node objects on a graph's side: the originals for g1, the copies
\* for g2.
Side(g) == alive \cap (IF g = "g1" THEN Orig ELSE Copies)

NextCopies ==
  \/ \E ie \in BOOLEAN : Clone("g1", "g2", ie)
  \/ TransitiveReduction("g1", "g2")
  \/ \E g \in Graph : Checksum(g)
  \/ /\ nodes["g2"] # {}
     /\ \E g \in Graph :
          \/ \E n \in Side(g), t \in Tag : AddTag(n, t)
          \/ \E n \in Side(g), t \in Tag : RemoveTag(n, t)
          \/ \E n \in Side(g), d \in Dur : SetDuration(n, d)
          \/ \E n \in Side(g), st \in Status : SetStatus(n, st)
          \/ \E n, m \in Side(g), k \in Key, v \in Val :
               SetEdgeAttribute(n, m, k, v)
          \/ \E u, v \in Side(g), at \in AttrChoices : AddEdge(g, u, v, at)
          \/ \E u, v \in Side(g) : RemoveEdge(g, u, v)
          \/ \E n \in Side(g) : RemoveNode(g, n)

SpecCopies == InitCopies /\ [][NextCopies]_vars

\* The step left the tags, duration, status and edge dicts of the nodes in
\* S as they were.
Untouched(S) ==
  \A n \in S : /\ dependents'[n] = dependents[n]
               /\ depends_on'[n] = depends_on[n]
               /\ tags'[n] = tags[n]
               /\ duration'[n] = duration[n]
               /\ status'[n] = status[n]

\* The step mutated nodes of one side only.
MutationOn(S) ==
  /\ last'.op \in {"add_tag", "remove_tag", "duration", "status",
                   "set_edge_attribute", "add_edge", "remove_edge",
                   "remove_node"}
  /\ {last'.u, last'.v} \subseteq S

\* C18: transitive_reduction() does not mutate its source: the source keeps
\* its members, and every source node its depends_on, dependents, edge
\* attributes, tags, duration and status; and a later mutation of the
\* returned graph's nodes leaves the source nodes unchanged.
ReductionLeavesSource ==
  [][/\ TransitiveReduction("g1", "g2")
          => /\ nodes'["g1"] = nodes["g1"]
             /\ Untouched(Orig)
     /\ MutationOn(Copies) => Untouched(Orig)]_vars

\* C18 witness: the reduction dropped A -> C, the returned graph's A lost its
\* tag afterwards, and the source still has the edge and the tag.
ReducedThenMutated ==
  /\ last.op = "remove_tag" /\ last.u = "a2"
  /\ nodes["g2"] = {"a2", "b2", "c2"}
  /\ "c2" \notin Dependents("a2") /\ "b2" \in Dependents("a2")
  /\ tags["a2"] = {}
  /\ "c" \in Dependents("a") /\ tags["a"] = {"x"}

(***************************************************************************)
(* Cloning a graph whose two members were constructed with the same        *)
(* reference; the initial states draw their tags, a duration and a status. *)
(***************************************************************************)
InitTwins ==
  /\ alive = {"a", "a3"}
  /\ dependents = [n \in Node |-> EmptyMap]
  /\ depends_on = [n \in Node |-> EmptyMap]
  /\ \E t1, t2 \in SUBSET Tag :
       tags = [n \in Node |-> IF n = "a" THEN t1 ELSE IF n = "a3" THEN t2 ELSE {}]
  /\ \E d \in Dur : duration = [n \in Node |-> IF n = "a" THEN d ELSE 0]
  /\ \E st \in Status :
       status = [n \in Node |-> IF n = "a3" THEN st ELSE "pending"]
  /\ obsId = [n \in Node |-> n]
  /\ observers = [n \in Node |-> IF n \in {"a", "a3"} THEN {"g1"} ELSE {}]
  /\ nodes = [g \in Graph |-> IF g = "g1" THEN {"a", "a3"} ELSE {}]
  /\ topoCache = [g \in Graph |-> NoCache]
  /\ parCache = [g \in Graph |-> NoCache]
  /\ sumCache = [g \in Graph |-> NoCache]
  /\ last = NoCall
  /\ ops = 0
  /\ budget = MaxOps

NextTwins ==
  \/ \E ie \in BOOLEAN : Clone("g1", "g2", ie)
  \/ \E g \in Graph : Checksum(g)

SpecTwins == InitTwins /\ [][NextTwins]_vars

\* C19: clone(include_edges) returns new node objects, one per member, with
\* the member's reference, tags, duration and status; no edges when
\* include_edges is false and exactly the edges between members, with equal
\* attributes, when it is true.  Source and clone share no tag or edge
\* storage: add_tag, remove_tag, set_edge_attribute, add_edge, remove_edge
\* and remove_node on one side leave the other side's tags, edges and
\* attributes unchanged.  A clone with edges has the checksum of its source.
CloneIsolated ==
  [][/\ \A ie \in BOOLEAN :
          Clone("g1", "g2", ie) =>
            LET members == nodes["g1"]
                copies == nodes'["g2"]
                E == IF ie THEN CloneEdges("g1") ELSE {}
            IN /\ copies = {CopyOf(n) : n \in members}
               /\ copies \cap (alive \cup members) = {}
               /\ Cardinality(copies) = Cardinality(members)
               /\ \A n \in members :
                    /\ reference(CopyOf(n)) = reference(n)
                    /\ tags'[CopyOf(n)] = tags[n]
                    /\ duration'[CopyOf(n)] = duration[n]
                    /\ status'[CopyOf(n)] = status[n]
               /\ \A u \in members :
                    /\ DOMAIN dependents'[CopyOf(u)] =
                         {CopyOf(e[2]) : e \in {f \in E : f[1] = u}}
                    /\ DOMAIN depends_on'[CopyOf(u)] =
                         {CopyOf(e[1]) : e \in {f \in E : f[2] = u}}
               /\ \A e \in E :
                    /\ dependents'[CopyOf(e[1])][CopyOf(e[2])] = dependents[e[1]][e[2]]
                    /\ depends_on'[CopyOf(e[2])][CopyOf(e[1])] = dependents[e[1]][e[2]]
               /\ Untouched(Orig)
     /\ MutationOn(Copies) => Untouched(Orig)
     /\ MutationOn(Orig) => Untouched(Copies)
     /\ (/\ sumCache'["g1"].set /\ sumCache'["g2"].set
         /\ (Content("g1") = Content("g2"))')
          => sumCache'["g1"].val = sumCache'["g2"].val]_vars

(***************************************************************************)
(* Graphable.find_path asked of every pair among three nodes linked in any *)
(* way.                                                                    *)
(***************************************************************************)
FindPath(self, target) ==
  /\ Step
  /\ self \in alive /\ target \in alive
  /\ IF FindPaths(self, target) = {}
     THEN last' = Call("find_path", "g1", self, target, "none", <<>>,
                       [found |-> FALSE, path |-> <<>>])
     ELSE \E p \in FindPaths(self, target) :
            last' = Call("find_path", "g1", self, target, "none", <<>>,
                         [found |-> TRUE, path |-> p])
  /\ UNCHANGED <<nodeVars, obsId, observers, nodes, cacheVars>>

NextPath == \E self, target \in alive : FindPath(self, target)

SpecPath == InitReach /\ [][NextPath]_vars

\* The pairs joined by a walk of at least one and at most k dependents
\* edges.
RECURSIVE WithinSteps(_)
WithinSteps(k) ==
  IF k <= 1 THEN DependentsRel
  ELSE LET prev == WithinSteps(k - 1)
       IN prev \cup {<<e[1], f[2]>> : <<e, f>> \in
                       {q \in prev \X DependentsRel : q[1][2] = q[2][1]}}

\* C20: a.find_path(t) returns None when no path of one or more dependents
\* edges leads from a to t; otherwise a list that starts with a, ends with
\* t, follows a dependents edge at every step and has the least possible
\* number of edges.  The search terminates on cyclic graphs, and
\* a.find_path(a) is None unless a lies on a cycle, in which case that
\* cycle is returned ([a, a] for a self-loop).
FindPathShortest ==
  last.op = "find_path" =>
    LET a == last.u
        t == last.v
        R == last.ret
        p == R.path
    IN IF <<a, t>> \notin Closure(DependentsRel)
       THEN ~R.found
       ELSE /\ R.found
            /\ Len(p) >= 2 /\ p[1] = a /\ p[Len(p)] = t
            /\ \A i \in 1..(Len(p) - 1) : p[i + 1] \in Dependents(p[i])
            /\ Len(p) > 2 => <<a, t>> \notin WithinSteps(Len(p) - 2)
            /\ (a = t /\ a \in Dependents(a)) => p = <<a, a>>

\* C20 witness: on a graph where C also has a self-loop and A can reach B
\* both directly and through C, a.find_path(a) returned the cycle through
\* B and C.
CycleFound ==
  /\ last.op = "find_path" /\ last.u = "a" /\ last.v = "a"
  /\ last.ret.found /\ Len(last.ret.path) = 4
  /\ "c" \in Dependents("c")

\* C21: when the members of a graph contain a directed cycle, made by node
\* level edge mutation after the nodes were added, topological_order()
\* raises GraphCycleError and returns no order, and check_cycles() raises
\* the same kind of error in the same states.
CyclicOrderRaises ==
  (last.op \in {"topological_order", "check_cycles"}
     /\ ~Acyclic(MemberDependsOnRel(last.g)))
    => last.err = "cycle"

(***************************************************************************)
(* Layering as a function of the graph: the acyclic edge sets over the     *)
(* four originals with any subset of them as members of g1.                *)
(***************************************************************************)
NextLayers == ParallelizedTopologicalOrder("g1")

SpecLayers == InitDag /\ [][NextLayers]_vars

\* C22: each layer of parallelized_topological_order() is maximal.  It
\* holds every member not placed in an earlier layer whose dependencies
\* among the members all lie in earlier layers; a member with no dependency
\* among the members is in the first layer, also when it depends on nodes
\* outside the graph.
LayersMaximal ==
  (last.op = "parallelized_topological_order" /\ last.err = "none") =>
    LET g == last.g
        r == parCache[g].val
        earlier(i) == UNION {r[j] : j \in 1..(i - 1)}
    IN \A i \in DOMAIN r :
         r[i] = {m \in nodes[g] \ earlier(i) :
                   DependsOn(m) \cap nodes[g] \subseteq earlier(i)}

(***************************************************************************)
(* Graph.sinks and Graph.sources: list comprehensions over _nodes that     *)
(* test the length of node.dependents and node.depends_on.                 *)
(***************************************************************************)
Sinks(g) ==
  /\ Step
  /\ last' = Call("sinks", g, "a", "a", "none", <<>>,
                  {node \in nodes[g] : Cardinality(Dependents(node)) = 0})
  /\ UNCHANGED <<nodeVars, obsId, observers, nodes, cacheVars>>

Sources(g) ==
  /\ Step
  /\ last' = Call("sources", g, "a", "a", "none", <<>>,
                  {node \in nodes[g] : Cardinality(DependsOn(node)) = 0})
  /\ UNCHANGED <<nodeVars, obsId, observers, nodes, cacheVars>>

NextEnds == Sinks("g1") \/ Sources("g1")

SpecEnds == InitDag /\ [][NextEnds]_vars

\* C23: Graph.sources is exactly the members with no dependency among the
\* members and Graph.sinks exactly the members with no dependent among the
\* members, neighbours outside the graph being filtered out; so a non-empty
\* acyclic graph has at least one source and at least one sink.
EndsWithinGraph ==
  LET g == last.g IN
    /\ last.op = "sources" =>
         /\ last.ret = {m \in nodes[g] : DependsOn(m) \cap nodes[g] = {}}
         /\ nodes[g] # {} => last.ret # {}
    /\ last.op = "sinks" =>
         /\ last.ret = {m \in nodes[g] : Dependents(m) \cap nodes[g] = {}}
         /\ nodes[g] # {} => last.ret # {}

(***************************************************************************)
(* Subgraph extraction.  subgraph_filtered and subgraph_tagged call        *)
(* Graph(S, discover=True): add_node for every node of S, discover(), which*)
(* traverses from every member in both directions with limit_to_graph      *)
(* False and adds what it reaches, then check_consistency and check_cycles.*)
(***************************************************************************)
\* What _traverse(limit_to_graph=False) reaches from the nodes of S, S
\* included.
RECURSIVE Reach(_, _)
Reach(dir, S) ==
  LET T == S \cup UNION {Neighbors(dir, n) : n \in S}
  IN IF T = S THEN S ELSE Reach(dir, T)

\* Graph(initial, discover=True) built in slot h for the call op on g.
Subgraph(op, g, h, initial) ==
  LET found == Reach("UP", initial) \cup Reach("DOWN", initial)
  IN /\ Step
     /\ g # h /\ Fresh(h)
     /\ IF initial = {}
        THEN /\ last' = Call(op, g, "a", "a", "none", <<>>, h)
             /\ UNCHANGED <<nodes, observers>>
        ELSE IF \E n \in found : FindPaths(n, n) # {}
        THEN /\ last' = Call(op, g, "a", "a", "cycle", <<>>, "None")
             /\ UNCHANGED <<nodes, observers>>
        ELSE IF \E n \in found : ~NodeConsistent(n)
        THEN /\ last' = Call(op, g, "a", "a", "consistency", <<>>, "None")
             /\ UNCHANGED <<nodes, observers>>
        ELSE /\ last' = Call(op, g, "a", "a", "none", <<>>, h)
             /\ nodes' = [nodes EXCEPT ![h] = found]
             /\ observers' =
                  [i \in Node |->
                     observers[i] \cup
                       (IF \E n \in found : obsId[n] = i THEN {h} ELSE {})]
     /\ UNCHANGED <<nodeVars, obsId, cacheVars>>

\* fn is given by the set of nodes it accepts.
SubgraphFiltered(g, h, fn) ==
  Subgraph("subgraph_filtered", g, h, {node \in nodes[g] : node \in fn})

SubgraphTagged(g, h, tag) ==
  Subgraph("subgraph_tagged", g, h, {node \in nodes[g] : tag \in tags[node]})

\* Three nodes with any acyclic edges, any of them members of g1 and any
\* of them tagged "x".
InitSub ==
  /\ alive = {"a", "b", "c"}
  /\ \E E \in {F \in SUBSET AllPairs : Acyclic(F)} :
       /\ dependents = [n \in Node |-> [m \in {x \in Node : <<n, x>> \in E} |-> {}]]
       /\ depends_on = [n \in Node |-> [m \in {x \in Node : <<x, n>> \in E} |-> {}]]
  /\ \E T \in SUBSET {"a", "b", "c"} :
       tags = [n \in Node |-> IF n \in T THEN {"x"} ELSE {}]
  /\ duration = [n \in Node |-> 0]
  /\ status = [n \in Node |-> "pending"]
  /\ obsId = [n \in Node |-> n]
  /\ \E M \in SUBSET {"a", "b", "c"} :
       /\ nodes = [g \in Graph |-> IF g = "g1" THEN M ELSE {}]
       /\ observers = [n \in Node |-> IF n \in M THEN {"g1"} ELSE {}]
  /\ topoCache = [g \in Graph |-> NoCache]
  /\ parCache = [g \in Graph |-> NoCache]
  /\ sumCache = [g \in Graph |-> NoCache]
  /\ last = NoCall
  /\ ops = 0
  /\ budget = MaxOps

NextSub ==
  \/ \E fn \in SUBSET {"a", "b", "c"} : SubgraphFiltered("g1", "g2", fn)
  \/ SubgraphTagged("g1", "g2", "x")

SpecSub == InitSub /\ [][NextSub]_vars

\* The nodes of S with every ancestor and every descendant of a node of S.
WithRelatives(S) ==
  S \cup {n \in Node : \E s \in S : Descendant(n, s) \/ Descendant(s, n)}

\* What C24 asks of a subgraph call on g over the matching members S.
SubgraphContract(g, S) ==
  last'.err = "none" =>
    LET R == nodes'[last'.ret]
    IN /\ R = WithRelatives(S)
       /\ S = {} => R = {}
       /\ R \subseteq nodes[g]
       /\ \A n \in R : last'.ret \in observers'[obsId[n]]

\* C24: subgraph_filtered(fn) and subgraph_tagged(tag) return a graph over
\* the same node objects whose members are exactly the members S that
\* satisfy the predicate with every ancestor and descendant of a node of S;
\* the result is empty when S is empty, holds no node outside the source
\* graph, and observes every node it contains.
SubgraphExact ==
  [][/\ \A fn \in SUBSET {"a", "b", "c"} :
          SubgraphFiltered("g1", "g2", fn)
            => SubgraphContract("g1", nodes["g1"] \cap fn)
     /\ SubgraphTagged("g1", "g2", "x")
          => SubgraphContract("g1", {n \in nodes["g1"] : "x" \in tags[n]})]_vars

(***************************************************************************)
(* Graph.bfs and Graph.dfs.  allowed is the set the traversal may enter:   *)
(* the members with limit_to_graph, every node without it.                 *)
(***************************************************************************)
Allowed(g, limit_to_graph) == IF limit_to_graph THEN nodes[g] ELSE Node

\* The while loop of bfs: the sequences yielded once the queue is empty.
RECURSIVE BfsLoop(_, _, _, _, _)
BfsLoop(allowed, dir, queue, visited, out) ==
  IF queue = <<>> THEN {out}
  ELSE LET current == Head(queue)
           fresh == (Neighbors(dir, current) \ visited) \cap allowed
       IN UNION {BfsLoop(allowed, dir, Tail(queue) \o o, visited \cup fresh,
                         out \o o) : o \in Orders(fresh)}

BfsYields(g, start_node, dir, limit_to_graph) ==
  IF limit_to_graph /\ start_node \notin nodes[g] THEN {<<>>}
  ELSE BfsLoop(Allowed(g, limit_to_graph), dir, <<start_node>>, {start_node},
               <<start_node>>)

\* discover(current) of _traverse with either setting of limit_to_graph.
RECURSIVE DfsLoop(_, _, _, _, _)
DfsLoop(allowed, dir, todo, visited, out) ==
  IF todo = {} THEN {<<visited, out>>}
  ELSE UNION {
         IF neighbor \in visited \/ neighbor \notin allowed
         THEN DfsLoop(allowed, dir, todo \ {neighbor}, visited, out)
         ELSE UNION {DfsLoop(allowed, dir, todo \ {neighbor}, r[1], r[2]) :
                       r \in DfsLoop(allowed, dir, Neighbors(dir, neighbor),
                                     visited \cup {neighbor},
                                     Append(out, neighbor))}
         : neighbor \in todo}

\* _traverse(start_node, direction, limit_to_graph, include_start=True)
DfsYields(g, start_node, dir, limit_to_graph) ==
  LET first == IF ~limit_to_graph \/ start_node \in nodes[g]
               THEN <<start_node>> ELSE <<>>
  IN {r[2] : r \in DfsLoop(Allowed(g, limit_to_graph), dir,
                           Neighbors(dir, start_node), {start_node}, first)}

Bfs(g, start_node, dir, limit_to_graph) ==
  /\ Step
  /\ start_node \in alive
  /\ \E r \in BfsYields(g, start_node, dir, limit_to_graph) :
       last' = Call("bfs", g, start_node, dir, "none", <<>>, r)
  /\ UNCHANGED <<nodeVars, obsId, observers, nodes, cacheVars>>

Dfs(g, start_node, dir, limit_to_graph) ==
  /\ Step
  /\ start_node \in alive
  /\ \E r \in DfsYields(g, start_node, dir, limit_to_graph) :
       last' = Call("dfs", g, start_node, dir, "none", <<>>, r)
  /\ UNCHANGED <<nodeVars, obsId, observers, nodes, cacheVars>>

Direction == {"UP", "DOWN"}

NextSearch ==
  \/ \E n \in alive, dir \in Direction, lim \in BOOLEAN : Bfs("g1", n, dir, lim)
  \/ \E n \in alive, dir \in Direction, lim \in BOOLEAN : Dfs("g1", n, dir, lim)

SpecSearch == InitReach /\ [][NextSearch]_vars

\* The nodes at edge distance 0, 1, 2, ... from the frontier, moving only
\* through allowed nodes.
RECURSIVE Rings(_, _, _, _)
Rings(allowed, dir, frontier, seen) ==
  IF frontier = {} THEN <<>>
  ELSE LET next == (UNION {Neighbors(dir, n) : n \in frontier} \cap allowed) \ seen
       IN <<frontier>> \o Rings(allowed, dir, next, seen \cup next)

\* What C25 asks of the sequence r yielded for start_node.
SearchContract(g, start_node, dir, limit_to_graph, r, levelOrder) ==
  LET rings == IF limit_to_graph /\ start_node \notin nodes[g] THEN <<>>
               ELSE Rings(Allowed(g, limit_to_graph), dir, {start_node},
                          {start_node})
      dist(n) == CHOOSE k \in DOMAIN rings : n \in rings[k]
  IN /\ Range(r) = UNION Range(rings)
     /\ r # <<>> => r[1] = start_node
     /\ \A i, j \in DOMAIN r : r[i] = r[j] => i = j
     /\ levelOrder =>
          \A i, j \in DOMAIN r : i <= j => dist(r[i]) <= dist(r[j])

\* C25: with limit_to_graph=True, bfs and dfs yield exactly the members
\* reachable from start through members only, start first, and nothing when
\* start is not a member; with limit_to_graph=False they yield start and
\* every node reachable from it; every node is yielded once, and bfs yields
\* in non-decreasing edge distance from start.
SearchExact ==
  [][\A n \in Node, dir \in Direction, lim \in BOOLEAN :
       /\ Bfs("g1", n, dir, lim)
            => SearchContract("g1", n, dir, lim, last'.ret, TRUE)
       /\ Dfs("g1", n, dir, lim)
            => SearchContract("g1", n, dir, lim, last'.ret, FALSE)]_vars

\* C26: add_edge is all-or-nothing.  If the call raises any error, the
\* member set, the observer registrations on u and v, the caches and all
\* nodes' edges are as before the call; no endpoint is left added without
\* the edge.
AddEdgeAllOrNothing ==
  [][\A g \in Graph, u, v \in Node, at \in AttrChoices :
       (AddEdge(g, u, v, at) /\ last'.err # "none")
         => UNCHANGED <<nodes, observers, cacheVars, edgeVars>>]_vars

\* C27: transitive_reduction() returns normally for every consistent
\* acyclic graph, also for a view whose members have dependents outside the
\* member set: edges to non-members are ignored and the result has exactly
\* one node per member.
ReductionOfViewReturns ==
  (last.op = "transitive_reduction"
     /\ Acyclic(MemberDependsOnRel(last.g))
     /\ \A n \in nodes[last.g] : NodeConsistent(n)) =>
    /\ last.err = "none"
    /\ nodes[last.ret] = {CopyOf(n) : n \in nodes[last.g]}

(***************************************************************************)
(* transitive_closure and diff_graph build a new Graph over copy.copy      *)
(* copies of the members and reset only the copies' edge dicts: a copy     *)
(* keeps the _observers WeakSet and the _tags set of its original.         *)
(***************************************************************************)
\* The new graph h over shallow copies of the members of g, with the edges
\* E between the copies; marks are the tags add_tag puts on every copy
\* before the graph is built.
ShallowDerive(op, g, h, E, keep_attrs, marks) ==
  LET members == nodes[g]
      copies == {ShallowOf(n) : n \in members}
      orig(c) == CHOOSE n \in members : ShallowOf(n) = c
      attr(u, v) == IF keep_attrs THEN dependents[u][v] ELSE {}
      ends(F) == {ShallowOf(e[1]) : e \in F} \cup {ShallowOf(e[2]) : e \in F}
      obsId1 == [i \in Node |-> IF i \in copies THEN obsId[orig(i)] ELSE obsId[i]]
      obs1 == [i \in Node |->
                 observers[i] \cup
                   (IF \E n \in members : obsId[n] = i THEN {h} ELSE {})]
      toldTags == IF marks = {} THEN {} ELSE Notified(observers, members)
      toldBy(F) == UNION {obs1[obsId1[c]] : c \in ends(F)}
  IN /\ Step
     /\ g # h /\ Fresh(h)
     /\ members \subseteq Orig /\ copies \cap alive = {}
     /\ IF Acyclic(E)
        THEN /\ alive' = alive \cup copies
             /\ obsId' = obsId1
             /\ observers' = obs1
             /\ nodes' = [nodes EXCEPT ![h] = copies]
             /\ tags' = [i \in Node |->
                           IF i \in copies THEN tags[orig(i)] \cup marks
                           ELSE IF i \in members THEN tags[i] \cup marks
                           ELSE tags[i]]
             /\ duration' = [i \in Node |->
                               IF i \in copies THEN duration[orig(i)] ELSE duration[i]]
             /\ status' = [i \in Node |->
                             IF i \in copies THEN status[orig(i)] ELSE status[i]]
             /\ dependents' =
                  [i \in Node |->
                     IF i \in copies
                     THEN [c \in {ShallowOf(e[2]) : e \in {f \in E : f[1] = orig(i)}} |->
                             attr(orig(i), orig(c))]
                     ELSE dependents[i]]
             /\ depends_on' =
                  [i \in Node |->
                     IF i \in copies
                     THEN [c \in {ShallowOf(e[1]) : e \in {f \in E : f[2] = orig(i)}} |->
                             attr(orig(c), orig(i))]
                     ELSE depends_on[i]]
             /\ topoCache' = Inval(topoCache, (toldTags \cup toldBy(E)) \ {h})
             /\ parCache' = Inval(parCache, (toldTags \cup toldBy(E)) \ {h})
             /\ sumCache' = Inval(sumCache, (toldTags \cup toldBy(E)) \ {h})
             /\ last' = Call(op, g, "a", "a", "none", <<>>, h)
        ELSE \* an add_edge raises part-way; the new graph is dropped
             \E F \in SUBSET E, e \in E :
               /\ e \notin F /\ Acyclic(F) /\ ~Acyclic(F \cup {e})
               /\ tags' = [i \in Node |->
                             IF i \in members THEN tags[i] \cup marks ELSE tags[i]]
               /\ topoCache' = Inval(topoCache, (toldTags \cup toldBy(F)) \ {h})
               /\ parCache' = Inval(parCache, (toldTags \cup toldBy(F)) \ {h})
               /\ sumCache' = Inval(sumCache, (toldTags \cup toldBy(F)) \ {h})
               /\ last' = Call(op, g, "a", "a", "cycle", <<>>, "None")
               /\ UNCHANGED <<alive, edgeVars, duration, status, obsId,
                              observers, nodes>>

\* The set self.descendants(u) yields.
MemberDescendants(g, u) == Range(CHOOSE r \in Traverse(g, u, "DOWN") : TRUE)

\* Graph.transitive_closure()
TransitiveClosure(g, h) ==
  ShallowDerive("transitive_closure", g, h,
                {<<u, v>> \in nodes[g] \X nodes[g] : v \in MemberDescendants(g, u)},
                FALSE, {})

\* Graph.diff_graph(other) for other = self over members with distinct
\* references: diff() reports nothing, so every node is "unchanged" and
\* every edge is copied with its attributes.
DiffGraph(g, other, h) ==
  /\ other = g
  /\ ShallowDerive("diff_graph", g, h, CloneEdges(g), TRUE,
                   {"diff:unchanged", "color:grey"})

NextTags ==
  \/ TransitiveClosure("g1", "g2")
  \/ DiffGraph("g1", "g1", "g2")
  \/ \E n \in alive \cap Shallow : AddTag(n, "x")
  \/ \E n \in alive \cap Shallow : RemoveTag(n, "x")

SpecTags == InitSub /\ [][NextTags]_vars

\* The tags, edges, duration and status of the nodes of S are as before.
InputsUntouched(S) ==
  \A n \in S :
    /\ tags'[n] = tags[n]
    /\ dependents'[n] = dependents[n] /\ depends_on'[n] = depends_on[n]
    /\ duration'[n] = duration[n] /\ status'[n] = status[n]

\* C28: transitive_closure() and diff_graph(other) leave every node of
\* their inputs unchanged in tags, edges, duration and status, so the
\* checksum of each input is the same before and after, and the nodes they
\* return share no tag storage with the inputs: adding or removing a tag on
\* a returned node never changes the tags of an input node.
DerivedTagsIsolated ==
  [][/\ (TransitiveClosure("g1", "g2") \/ DiffGraph("g1", "g1", "g2"))
          => /\ InputsUntouched(nodes["g1"])
             /\ Checksums("g1")' = Checksums("g1")
     /\ \A n \in Shallow :
          (AddTag(n, "x") \/ RemoveTag(n, "x")) => InputsUntouched(Orig)]_vars

(***************************************************************************)
(* Repeated layering of one graph over three nodes linked in any way,      *)
(* cycles included.                                                        *)
(***************************************************************************)
InitRelayer ==
  /\ alive = {"a", "b", "c"}
  /\ \E E \in SUBSET AllPairs :
       /\ dependents = [n \in Node |-> [m \in {x \in Node : <<n, x>> \in E} |-> {}]]
       /\ depends_on = [n \in Node |-> [m \in {x \in Node : <<x, n>> \in E} |-> {}]]
  /\ tags = [n \in Node |-> {}]
  /\ duration = [n \in Node |-> 0]
  /\ status = [n \in Node |-> "pending"]
  /\ obsId = [n \in Node |-> n]
  /\ \E M \in SUBSET {"a", "b", "c"} :
       /\ nodes = [g \in Graph |-> IF g = "g1" THEN M ELSE {}]
       /\ observers = [n \in Node |-> IF n \in M THEN {"g1"} ELSE {}]
  /\ topoCache = [g \in Graph |-> NoCache]
  /\ parCache = [g \in Graph |-> NoCache]
  /\ sumCache = [g \in Graph |-> NoCache]
  /\ last = NoCall
  /\ ops = 0
  /\ budget = MaxOps - 1

NextRelayer == ParallelizedTopologicalOrder("g1")

SpecRelayer == InitRelayer /\ [][NextRelayer]_vars

\* C29: a failed layering leaves no cached result.  If
\* parallelized_topological_order() fails because the members contain a
\* cycle, every later call on the unchanged graph fails again, and whenever
\* the method returns a value the union of its layers is the member set.
FailedLayeringNotCached ==
  last.op = "parallelized_topological_order" =>
    /\ ~Acyclic(MemberDependsOnRel(last.g)) => last.err # "none"
    /\ last.err = "none" => UNION Range(parCache[last.g].val) = nodes[last.g]

(***************************************************************************)
(* Graph.longest_path: cpm_analysis(), the zero-slack nodes, a start node  *)
(* and a walk along dependents that are critical and start when the        *)
(* current node finishes.                                                  *)
(***************************************************************************)
\* The while loop of longest_path; which qualifying dependent comes first
\* depends on the order of the dependents dict.  A path longer than the
\* member set stands for a walk that never ends.
RECURSIVE LongestWalk(_, _, _, _)
LongestWalk(g, analysis, cp_nodes, path) ==
  LET current == Last(path)
      next == {dep \in Dependents(current) :
                 dep \in cp_nodes /\ analysis[dep].ES = analysis[current].EF}
  IN IF next = {} \/ Len(path) > Cardinality(nodes[g]) THEN {path}
     ELSE UNION {LongestWalk(g, analysis, cp_nodes, Append(path, dep)) :
                   dep \in next}

\* The lists longest_path may return when topological_order() gave order.
LongestPathsOf(g, order) ==
  LET analysis == CpmOf(order)
      cp_nodes == {node \in DOMAIN analysis : analysis[node].slack = 0}
      sources == {node \in nodes[g] : Cardinality(DependsOn(node)) = 0}
      first == order[Min({i \in DOMAIN order : order[i] \in cp_nodes})]
      starts == IF sources \cap cp_nodes # {} THEN sources \cap cp_nodes
                ELSE {first}
  IN IF cp_nodes = {} THEN {<<>>}
     ELSE UNION {LongestWalk(g, analysis, cp_nodes, <<current>>) :
                   current \in starts}

LongestPath(g) ==
  /\ Step
  /\ IF TopoReturns(g) = {}
     THEN /\ last' = Call("longest_path", g, "a", "a", "graphlib.CycleError",
                          <<>>, "None")
          /\ UNCHANGED topoCache
     ELSE \E order \in TopoReturns(g) :
            /\ topoCache' = [topoCache EXCEPT ![g] = Cached(order)]
            /\ \E path \in LongestPathsOf(g, order) :
                 last' = Call("longest_path", g, "a", "a",
                              IF Len(path) > Cardinality(nodes[g])
                              THEN "hang" ELSE "none",
                              <<>>, path)
  /\ UNCHANGED <<nodeVars, obsId, observers, nodes, parCache, sumCache>>

\* Non-negative durations, zero included.
LongestDurations ==
  DurationChoices \cup {[n \in Node |-> IF n = "b" THEN 1 ELSE 0]}

\* The acyclic edge sets over the four originals with any subset of them as
\* members of g1 and one of the duration assignments.
InitLongest ==
  /\ \E E \in {F \in SUBSET OrigPairs : Acyclic(F)}, M \in SUBSET Orig :
       /\ dependents = [n \in Node |-> [m \in {x \in Orig : <<n, x>> \in E} |-> {}]]
       /\ depends_on = [n \in Node |-> [m \in {x \in Orig : <<x, n>> \in E} |-> {}]]
       /\ nodes = [g \in Graph |-> IF g = "g1" THEN M ELSE {}]
       /\ observers = [n \in Node |-> IF n \in M THEN {"g1"} ELSE {}]
  /\ duration \in LongestDurations
  /\ alive = Orig
  /\ tags = [n \in Node |-> {}]
  /\ status = [n \in Node |-> "pending"]
  /\ obsId = [n \in Node |-> n]
  /\ topoCache = [g \in Graph |-> NoCache]
  /\ parCache = [g \in Graph |-> NoCache]
  /\ sumCache = [g \in Graph |-> NoCache]
  /\ last = NoCall
  /\ ops = 0
  /\ budget = MaxOps - 2

NextLongest == LongestPath("g1")

SpecLongest == InitLongest /\ [][NextLongest]_vars

\* A graph and its clone sharing observers, changed through the Graph API
\* and then asked for the longest path.
NextSharedLongest ==
  \/ \E g \in Graph, n \in alive : AddNode(g, n)
  \/ \E g \in Graph, n \in alive : RemoveNode(g, n)
  \/ \E u, v \in {"a", "b"} : AddEdge("g2", u, v, {})
  \/ \E g \in Graph : LongestPath(g)

SpecSharedLongest == InitSharedCpm /\ [][NextSharedLongest]_vars

\* Dependents and dependencies among the members of g.
MemberDependentsRel(g) ==
  {<<u, v>> \in nodes[g] \X nodes[g] : v \in Dependents(u)}

\* Earliest finish of n in g: the heaviest chain of member dependencies
\* ending in n.
RECURSIVE EarliestFinish(_, _)
EarliestFinish(g, n) ==
  duration[n] + Max({0} \cup {EarliestFinish(g, d) : d \in DependsOn(n) \cap nodes[g]})

ProjectDuration(g) == Max({EarliestFinish(g, n) : n \in nodes[g]})

\* Latest finish of n in g.
RECURSIVE LatestFinish(_, _)
LatestFinish(g, n) ==
  LET subs == Dependents(n) \cap nodes[g]
  IN IF subs = {} THEN ProjectDuration(g)
     ELSE Min({LatestFinish(g, d) - duration[d] : d \in subs})

RECURSIVE SumDurations(_)
SumDurations(path) ==
  IF path = <<>> THEN 0 ELSE duration[Head(path)] + SumDurations(Tail(path))

\* C30: for every non-empty acyclic graph with non-negative durations,
\* longest_path() terminates and returns a non-empty list of distinct
\* members in which consecutive nodes are joined by a direct edge, every
\* node has zero slack, the first node has ES = 0 and the durations add up
\* to the project duration (the maximum EF); the diamond A(2) -> B(3) ->
\* D(4), A -> C(1) -> D returns [A, B, D].
LongestPathCritical ==
  LET g == last.g
      M == nodes[g]
      R == last.ret
  IN (last.op = "longest_path" /\ M # {}
        /\ Acyclic(MemberDependsOnRel(g)) /\ Acyclic(MemberDependentsRel(g))) =>
       /\ last.err = "none"
       /\ R # <<>>
       /\ Range(R) \subseteq M
       /\ \A i, j \in DOMAIN R : R[i] = R[j] => i = j
       /\ \A i \in 1..(Len(R) - 1) : R[i + 1] \in Dependents(R[i])
       /\ \A i \in DOMAIN R : LatestFinish(g, R[i]) = EarliestFinish(g, R[i])
       /\ EarliestFinish(g, R[1]) = duration[R[1]]
       /\ SumDurations(R) = ProjectDuration(g)
       /\ (M = Orig /\ ExampleDurations /\ MemberDependsOnRel(g) = Diamond)
            => R = <<"a", "b", "d">>

====
